---- MODULE Spec2Model ----
(***************************************************************************)
(* A model of joft: the template run loop (joft/base.py), the four action  *)
(* handlers (joft/actions.py), the template model (joft/models.py), the    *)
(* reference resolver and the payload substitution engine.                 *)
(*                                                                         *)
(* Text is modelled as a sequence of atoms.  An atom is either a piece of  *)
(* literal text or one placeholder token "${key}".  A key (an object_id, a *)
(* reference_id or a composite pool key) is the sequence of its            *)
(* dot-separated segments, so that f"{id}.{field}" is id \o <<field>>.     *)
(***************************************************************************)
EXTENDS Naturals, Sequences, FiniteSets, TLC

\* ------------------------------------------------------------------ bounds
MaxActions == 2
MaxIssues == 2
MaxRuns == 2

\* ------------------------------------------------------------ text and keys
\* Python's None for an optional identifier, and the empty string "".
None == << >>
EmptyStr == <<"">>

\* `if action.object_id:` -- None and "" are both falsy.
Truthy(id) == id # None /\ id # EmptyStr

\* An issue handle: kind "I" (found by a search) or "N" (made by create_issue).
Handle(kind, n) == [kind |-> kind, n |-> n]
NoHandle == Handle("-", 0)

Lit(segs) == [ref |-> FALSE, k |-> segs, h |-> NoHandle]
Tok(key) == [ref |-> TRUE, k |-> key, h |-> NoHandle]
Text(word) == <<Lit(<<word>>)>>
\* The text of an attribute of a remote issue.
IssueText(attr, h) == <<[ref |-> FALSE, k |-> <<attr>>, h |-> h]>>

\* Mutant of CompositeKey: the value is written under the reference_id itself.
KeyWithoutField(id, field) == id

\* f"{reference_id}.{field}"
CompositeKey(id, field) == id \o <<field>>

\* Mutant of replace_ref: every placeholder of the text is taken out of it.
DropTokens(field, ref, value) == SelectSeq(field, LAMBDA a : ~a.ref)

RECURSIVE replace_ref(_, _, _)
\* field.replace("${" + ref + "}", value)
replace_ref(field, ref, value) ==
    IF field = << >> THEN << >>
    ELSE IF Head(field) = Tok(ref)
         THEN value \o replace_ref(Tail(field), ref, value)
         ELSE <<Head(field)>> \o replace_ref(Tail(field), ref, value)

\* f"${{{ref}}}" in text
HasToken(text, ref) == \E i \in 1..Len(text) : text[i] = Tok(ref)

\* ------------------------------------------------------------------ errors
NoError == [type |-> "none", msg |-> << >>]
Raise(type, msg) == [type |-> type, msg |-> msg]

\* --------------------------------------------------------- the remote issues
\* Issues the search can return, in the order the service lists them.
SearchableIssue(i) == Handle("I", i)
\* The issue returned by the n-th create_issue call of the process.
NewIssue(n) == Handle("N", n)

\* issue.key, issue.id, issue.permalink()
IssueKeyOf(h) == IssueText("key", h)
IssueIdOf(h) == IssueText("id", h)
Permalink(h) == IssueText("permalink", h)

\* issue.fields: the second searchable issue has no priority set and no
\* components; no issue has an attribute outside BagFields.
BagFields == {"summary", "description", "status"}
HasPriority(h) == h # SearchableIssue(2)
PriorityName(h) == IssueText("priority.name", h)
ProjectKey(h) == IssueText("project.key", h)
ComponentNames(h) ==
    IF h = SearchableIssue(2) THEN << >>
    ELSE <<Text("compA"), Text("compB")>>
\* The description of every issue quotes a placeholder: its text ends with the
\* characters "${issue.key}", typed by whoever wrote the issue.
BagValue(h, field) ==
    CASE field = "status" -> [t |-> "obj", o |-> h]
      [] field = "description" ->
           [t |-> "str", s |-> IssueText(field, h) \o <<Tok(<<"issue", "key">>)>>]
      [] OTHER -> [t |-> "str", s |-> IssueText(field, h)]

\* ----------------------------------------------------- the reference pool
\* An insertion-ordered dict: a sequence of [k, v] with pairwise distinct k.
PoolKeys(pool) == {pool[i].k : i \in 1..Len(pool)}
PoolHas(pool, key) == key \in PoolKeys(pool)
PoolGet(pool, key) == pool[CHOOSE i \in 1..Len(pool) : pool[i].k = key].v
\* reference_pool[key] = value
PoolSet(pool, key, value) ==
    IF PoolHas(pool, key)
    THEN [i \in 1..Len(pool) |->
            IF pool[i].k = key THEN [k |-> key, v |-> value] ELSE pool[i]]
    ELSE Append(pool, [k |-> key, v |-> value])

IssueVal(h) == [t |-> "issue", h |-> h]
StrVal(s) == [t |-> "str", s |-> s]
RecListVal(names) == [t |-> "reclist", r |-> names]

\* ------------------------------------------------- the reference resolver
\* Mutant of Result: a failure takes the composite keys out of the pool.
ResultRolledBack(pool, err) ==
    [pool |-> IF err # NoError THEN SelectSeq(pool, LAMBDA e : Len(e.k) = 1) ELSE pool,
     err |-> err]

\* What the resolver leaves: the pool, changed in place, and the error raised.
Result(pool, err) == [pool |-> pool, err |-> err]

\* Mutant of ExtractField: every field is read from the field bag.
ExtractFromBag(obj, field) ==
    IF obj.t # "issue" \/ field \notin BagFields \cup {"id", "key", "link", "priority"}
    THEN [err |-> Raise("AttributeError", Text(field)), val |-> StrVal(<< >>)]
    ELSE [err |-> NoError, val |-> BagValue(obj.h, field)]

\* One arm of `match field` (base.py 309-334) against the bound object.  A
\* pool value that is not an issue has none of the attributes read here.
ExtractField(obj, field) ==
    IF obj.t # "issue"
    THEN [err |-> Raise("AttributeError", Text(field)), val |-> StrVal(<< >>)]
    ELSE CASE field \in {"id", "key"} ->
                [err |-> NoError,
                 val |-> StrVal(IF field = "id" THEN IssueIdOf(obj.h)
                                ELSE IssueKeyOf(obj.h))]
           [] field \in {"link", "url", "permalink"} ->
                [err |-> NoError, val |-> StrVal(Permalink(obj.h))]
           [] field = "priority" ->
                IF HasPriority(obj.h)
                THEN [err |-> NoError, val |-> StrVal(PriorityName(obj.h))]
                ELSE [err |-> Raise("AttributeError", Text("name")),
                      val |-> StrVal(<< >>)]
           [] field = "components" ->
                [err |-> NoError, val |-> RecListVal(ComponentNames(obj.h))]
           [] field = "project" ->
                [err |-> NoError, val |-> StrVal(ProjectKey(obj.h))]
           [] OTHER ->
                IF field \in BagFields
                THEN [err |-> NoError, val |-> BagValue(obj.h, field)]
                ELSE [err |-> Raise("AttributeError", Text(field)),
                      val |-> StrVal(<< >>)]

RECURSIVE ResolveFields(_, _, _, _)
\* The write of one arm, then the rest of the fields.
ResolveRest(pool, id, obj, fields, r) ==
    IF r.err # NoError THEN Result(pool, r.err)
    ELSE ResolveFields(PoolSet(pool, CompositeKey(id, Head(fields)), r.val),
                       id, obj, Tail(fields))

\* `for field in ref.fields` (base.py 308-334); ref_object was read before it.
ResolveFields(pool, id, obj, fields) ==
    IF fields = << >> THEN Result(pool, NoError)
    ELSE ResolveRest(pool, id, obj, fields, ExtractField(obj, Head(fields)))

\* The message of base.py 300-302.
UsedBeforeDeclared(id) ==
    Text("The reference id '") \o <<Lit(id)>>
        \o Text("' is used before it was declared.")

RECURSIVE update_reference_pool(_, _)
\* After one declaration: stop at its error, or go on with the next one.
NextDeclaration(reference_data, r) ==
    IF r.err # NoError THEN r
    ELSE update_reference_pool(Tail(reference_data), r.pool)

\* Mutant of ResolveDeclaration: a declaration of a missing id is passed over.
SkipMissingDeclaration(ref, pool) ==
    IF ~PoolHas(pool, ref.reference_id) THEN Result(pool, NoError)
    ELSE ResolveFields(pool, ref.reference_id, PoolGet(pool, ref.reference_id),
                       ref.fields)

\* One declaration (base.py 299-334).
ResolveDeclaration(ref, pool) ==
    IF ~PoolHas(pool, ref.reference_id)
    THEN Result(pool, Raise("Exception", UsedBeforeDeclared(ref.reference_id)))
    ELSE ResolveFields(pool, ref.reference_id, PoolGet(pool, ref.reference_id),
                       ref.fields)

update_reference_pool(reference_data, pool) ==
    IF reference_data = << >> THEN Result(pool, NoError)
    ELSE NextDeclaration(reference_data,
                         ResolveDeclaration(Head(reference_data), pool))

\* --------------------------------------------- payload values (JSON-like)
\* A payload is an ordered mapping: a sequence of [f, v] with distinct f.
NumV == [t |-> "num"]
NullV == [t |-> "null"]
StrV(s) == [t |-> "str", s |-> s]
\* A nested mapping of sub-field name to text: a sequence of [sk, sv].
MapV(m) == [t |-> "map", m |-> m]
StrListV(l) == [t |-> "strlist", l |-> l]
\* list(text): the list of the single characters of a text; no element of
\* it can hold a whole token.
CharListV(s) == [t |-> "charlist", c |-> s]

MapKeys(m) == {m[i].sk : i \in 1..Len(m)}
MapGet(m, sub) == m[CHOOSE i \in 1..Len(m) : m[i].sk = sub].sv
MapSet(m, sub, text) ==
    [i \in 1..Len(m) |-> IF m[i].sk = sub THEN [sk |-> sub, sv |-> text] ELSE m[i]]

PayloadNames(fields) == {fields[i].f : i \in 1..Len(fields)}
PayloadHas(fields, name) == name \in PayloadNames(fields)
PayloadGet(fields, name) ==
    fields[CHOOSE i \in 1..Len(fields) : fields[i].f = name].v

\* Whether any word of the text equals `word` (a substring test at the
\* granularity of the model's words).
HasWord(text, word) ==
    \E i \in 1..Len(text) : \E j \in 1..Len(text[i].k) : text[i].k[j] = word

Outcome(val, err) == [val |-> val, err |-> err]

\* Python's `needle in value`, where the needle is a text.  None is not
\* iterable; a list of dicts or of single characters never holds the needle.
Contains(val, needle) ==
    CASE val.t = "str" ->
           IF Len(needle) = 1 /\ needle[1].ref
           THEN HasToken(val.s, needle[1].k)
           ELSE \A i \in 1..Len(needle) :
                    \A j \in 1..Len(needle[i].k) : HasWord(val.s, needle[i].k[j])
      [] val.t = "map" ->
           \E sub \in MapKeys(val.m) : Text(sub) = needle
      [] val.t = "strlist" ->
           \E i \in 1..Len(val.l) : val.l[i] = needle
      [] OTHER -> FALSE

NotIterable(val) == val.t \in {"null", "num"}

\* Mutant of SubReplace: the token is replaced in every sub-field.
ReplaceEverySub(val, sub, ref, text) ==
    IF val.t = "map"
    THEN Outcome(MapV([i \in 1..Len(val.m) |->
                          [sk |-> val.m[i].sk,
                           sv |-> replace_ref(val.m[i].sv, ref, text)]]), NoError)
    ELSE Outcome(val, Raise("TypeError", Text(sub)))

\* fields[field][sub] = replace_ref(fields[field][sub], ref, v)
SubReplace(val, sub, ref, text) ==
    CASE val.t = "map" ->
           IF sub \in MapKeys(val.m)
           THEN Outcome(MapV(MapSet(val.m, sub,
                                    replace_ref(MapGet(val.m, sub), ref, text))),
                        NoError)
           ELSE Outcome(val, Raise("KeyError", Text(sub)))
      [] OTHER -> Outcome(val, Raise("TypeError", Text(sub)))

\* list(map(lambda label: replace_ref(label, ref, v), fields[field]))
MapLabels(val, ref, text) ==
    CASE val.t = "strlist" ->
           Outcome(StrListV([i \in 1..Len(val.l) |->
                                replace_ref(val.l[i], ref, text)]), NoError)
      [] val.t = "str" -> Outcome(CharListV(val.s), NoError)
      [] val.t = "charlist" -> Outcome(val, NoError)
      [] val.t = "map" ->
           Outcome(StrListV([i \in 1..Len(val.m) |-> Text(val.m[i].sk)]), NoError)
      [] val.t = "reclist" ->
           IF val.r = << >> THEN Outcome(val, NoError)
           ELSE Outcome(val, Raise("AttributeError", Text("replace")))
      [] OTHER -> Outcome(val, Raise("TypeError", Text("not iterable")))

\* Mutant of ApplyEntry: a string field takes the value of any pool entry
\* whose token it holds, an issue included.
ReplaceByAnyValue(field, val, ref, v) ==
    IF val.t = "str" /\ HasToken(val.s, ref) THEN Outcome(v, NoError)
    ELSE Outcome(val, NoError)

\* Mutant of ApplyEntry: "components" takes every list of the pool, whether
\* the field names it or not.
ReplaceByAnyList(field, val, ref, v) ==
    IF v.t = "reclist" /\ field = "components" THEN Outcome(v, NoError)
    ELSE Outcome(val, NoError)

\* The body of `for ref, v in reference_pool.items()` (base.py 373-413) for
\* one field and one pool entry.
ApplyEntry(field, val, ref, v) ==
    IF v.t \notin {"str", "reclist"} THEN Outcome(val, NoError)
    ELSE IF v.t = "reclist"
    THEN IF field # "components" THEN Outcome(val, NoError)
         ELSE IF NotIterable(val)
              THEN Outcome(val, Raise("TypeError", Text("not iterable")))
              ELSE IF Contains(val, <<Tok(ref)>>) THEN Outcome(v, NoError)
                   ELSE Outcome(val, NoError)
    ELSE CASE field = "project" ->
                IF NotIterable(val)
                THEN Outcome(val, Raise("TypeError", Text("not iterable")))
                ELSE IF Contains(val, Text("key"))
                     THEN SubReplace(val, "key", ref, v.s)
                     ELSE IF Contains(val, Text("name"))
                          THEN SubReplace(val, "name", ref, v.s)
                          ELSE Outcome(val, NoError)
           [] field \in {"issuetype", "assignee", "priority"} ->
                SubReplace(val, "name", ref, v.s)
           [] field = "labels" -> MapLabels(val, ref, v.s)
           [] OTHER ->
                IF NotIterable(val)
                THEN Outcome(val, Raise("TypeError", Text("not iterable")))
                ELSE IF val.t = "str"
                     THEN Outcome(StrV(replace_ref(val.s, ref, v.s)), NoError)
                     ELSE IF Contains(val, <<Lit(ref)>>)
                          THEN Outcome(val, Raise("AttributeError", Text("replace")))
                          ELSE Outcome(val, NoError)

RECURSIVE ApplyPool(_, _, _)
\* After one pool entry: stop at its error, or go on with the next entry.
NextEntry(field, pool, r) ==
    IF r.err # NoError THEN r ELSE ApplyPool(field, r.val, Tail(pool))

\* `for ref, v in reference_pool.items()` for one field, in insertion order.
ApplyPool(field, val, pool) ==
    IF pool = << >> THEN Outcome(val, NoError)
    ELSE NextEntry(field, pool, ApplyEntry(field, val, Head(pool).k, Head(pool).v))

RECURSIVE ApplyFields(_, _, _)
\* After one field: keep what the pool made of it, stop at its error or go on.
NextField(pool, fields, i, r) ==
    IF r.err # NoError
    THEN [fields |-> [fields EXCEPT ![i].v = r.val], err |-> r.err]
    ELSE ApplyFields(pool, [fields EXCEPT ![i].v = r.val], i + 1)

\* `for field in fields` (base.py 368-371) from position i on.
ApplyFields(pool, fields, i) ==
    IF i > Len(fields) THEN [fields |-> fields, err |-> NoError]
    ELSE IF fields[i].v.t = "num" THEN ApplyFields(pool, fields, i + 1)
    ELSE NextField(pool, fields, i, ApplyPool(fields[i].f, fields[i].v, pool))

apply_reference_pool_to_payload(reference_pool, fields) ==
    ApplyFields(reference_pool, fields, 1)

\* ------------------------------------------------ the template (models.py)
\* A raw action is the mapping read from the template file:
\*   [type, object_id, reference_id, reuse_data, fields]
\* reuse_data is [py, items]: the Python type of the value and its entries.
ActionTypes == {"create-ticket", "update-ticket", "link-issues", "transition"}

ReuseList(items) == [py |-> "list", items |-> items]
NoReuse == [py |-> "none", items |-> << >>]
Decl(id, fields) == [reference_id |-> id, fields |-> fields]

\* A reuse_data that is one mapping instead of a list of mappings, and the
\* empty values of the types a template file can give.
ReuseDict(decl) == [py |-> "dict", items |-> <<decl>>]
EmptyDict == [py |-> "dict", items |-> << >>]
EmptyString == [py |-> "str", items |-> << >>]

\* Mutant of ReuseDataError: the type of reuse_data is not looked at.
ReuseDataUnchecked(reuse_data) == NoError

\* Action.reuse_data_must_be_list, behind `if reuse_data:` (models.py 51-52).
ReuseDataError(reuse_data) ==
    IF reuse_data.items # << >> /\ reuse_data.py # "list"
    THEN Raise("Exception",
               Text("Reuse data is a '") \o Text(reuse_data.py)
                   \o Text("' type, must be a list."))
    ELSE NoError

UnknownAction(type) ==
    Text("Unknown Action '") \o Text(type) \o Text("'! Aborting...")

\* Mutant of ActionInitError: the kind of the action is not looked at.
InitErrorIgnoringKind(raw) == ReuseDataError(raw.reuse_data)

\* The error one raw action raises in JiraTemplate.__post_init__, if any.
ActionInitError(raw) ==
    IF raw.type \notin ActionTypes
    THEN Raise("Exception", UnknownAction(raw.type))
    ELSE ReuseDataError(raw.reuse_data)

\* JiraTemplate.__post_init__: the first action that raises decides.
JiraTemplateInit(raw_actions) ==
    IF \E i \in 1..Len(raw_actions) : ActionInitError(raw_actions[i]) # NoError
    THEN ActionInitError(raw_actions[
             CHOOSE i \in 1..Len(raw_actions) :
                 /\ ActionInitError(raw_actions[i]) # NoError
                 /\ \A j \in 1..(i - 1) : ActionInitError(raw_actions[j]) = NoError])
    ELSE NoError

\* -------------------------------------------- uniqueness of the object ids
RECURSIVE ActionObjectIds(_)
\* `if action.object_id: object_ids.append(action.object_id)`
ActionObjectIds(actions) ==
    IF actions = << >> THEN << >>
    ELSE (IF Truthy(Head(actions).object_id) THEN <<Head(actions).object_id>>
          ELSE << >>) \o ActionObjectIds(Tail(actions))

\* The list built at base.py 228-235.
ObjectIds(template) ==
    (IF template.trigger.present THEN <<template.trigger.object_id>> ELSE << >>)
        \o ActionObjectIds(template.actions)

\* list.count
Count(list, x) == Cardinality({i \in 1..Len(list) : list[i] = x})

\* Mutant of MaxByCount: the first identifier, whatever its count.
FirstOfList(list) == list[1]

\* max(object_ids, key=object_ids.count): the first element of greatest count.
MaxByCount(list) ==
    list[CHOOSE i \in 1..Len(list) :
            /\ \A j \in 1..Len(list) : Count(list, list[j]) <= Count(list, list[i])
            /\ \A j \in 1..(i - 1) : Count(list, list[j]) < Count(list, list[i])]

DuplicateMessage(id) ==
    Text("The validation of the property 'object_id' has failed. ")
        \o Text("The object_id with the value '") \o <<Lit(id)>>
        \o Text("' has been defined as the 'object_id' for 2 or more objects!")

validate_uniqueness_of_object_ids(template) ==
    LET object_ids == ObjectIds(template)
    IN  IF Len(object_ids) # Cardinality({object_ids[i] : i \in 1..Len(object_ids)})
        THEN Raise("Exception", DuplicateMessage(MaxByCount(object_ids)))
        ELSE NoError

\* load_and_validate_template: construction, then the uniqueness check.
load_and_validate_template(template) ==
    IF JiraTemplateInit(template.actions) # NoError
    THEN JiraTemplateInit(template.actions)
    ELSE validate_uniqueness_of_object_ids(template)

\* ------------------------------------------------- the action handlers
\* What a handler did, in the order it did it.  An event is
\*   [e, api, ok, payload, key, val]
\* with e one of "copy", "resolve", "subst", "call", "bind", "warn".
Ev(e, api, ok, payload, key, val) ==
    [e |-> e, api |-> api, ok |-> ok, payload |-> payload, key |-> key, val |-> val]
CopyEv == Ev("copy", "", TRUE, << >>, None, NullV)
ResolveEv(ok) == Ev("resolve", "", ok, << >>, None, NullV)
SubstEv(ok, fields) == Ev("subst", "", ok, fields, None, NullV)
CallEv(api, ok, fields, target) == Ev("call", api, ok, fields, None, target)
BindEv(key, val) == Ev("bind", "", TRUE, << >>, key, val)
WarnEv(type) == Ev("warn", type, TRUE, << >>, None, NullV)

\* jira_session.search_issues(jira_template.jira_search.jql) (base.py 59).
SearchCall(jql, ok) ==
    CallEv("search_issues", ok, <<[f |-> "jql", v |-> StrV(Text(jql))]>>, NullV)

\* The outcome of one handler: its events, the pool it leaves, the error it
\* raised (or NoError) and the number of issues created so far.
Handled(events, pool, err, created) ==
    [events |-> events, pool |-> pool, err |-> err, created |-> created]

JIRAError(api) == Raise("JIRAError", Text(api))

\* action.fields[name][sub] read for a log line.
Subscript(fields, name, sub) ==
    IF ~PayloadHas(fields, name) THEN Raise("KeyError", Text(name))
    ELSE LET val == PayloadGet(fields, name)
         IN  IF val.t # "map" THEN Raise("TypeError", Text(sub))
             ELSE IF sub \notin MapKeys(val.m) THEN Raise("KeyError", Text(sub))
                  ELSE NoError

\* The message of actions.py 61-66 and 130-135.
InvalidReference(id) ==
    Text("Invalid reference id '") \o <<Lit(id)>>
        \o Text("'! You are referencing something that does not exist!")

\* The first of the names that the payload lacks, read for a log line.
FirstMissing(fields, names) ==
    IF \E i \in 1..Len(names) : ~PayloadHas(fields, names[i])
    THEN Raise("KeyError",
               Text(names[CHOOSE i \in 1..Len(names) :
                        /\ ~PayloadHas(fields, names[i])
                        /\ \A j \in 1..(i - 1) : PayloadHas(fields, names[j])]))
    ELSE NoError

\* What the first two statements of a handler leave: [events, pool, fields, err]
Prepared(events, pool, fields, err) ==
    [events |-> events, pool |-> pool, fields |-> fields, err |-> err]

\* apply_reference_pool_to_payload(reference_pool, action.fields), given what
\* update_reference_pool left.
Substituted(r1, r2) ==
    Prepared(<<CopyEv, ResolveEv(TRUE), SubstEv(r2.err = NoError, r2.fields)>>,
             r1.pool, r2.fields, r2.err)

Resolved(action, r1) ==
    IF r1.err # NoError
    THEN Prepared(<<CopyEv, ResolveEv(FALSE)>>, r1.pool, action.fields, r1.err)
    ELSE Substituted(r1, apply_reference_pool_to_payload(r1.pool, action.fields))

\* update_reference_pool, then apply_reference_pool_to_payload, on the copy of
\* the action (the first two statements of every handler).
Prepare(action, pool) ==
    Resolved(action, update_reference_pool(action.reference_data, pool))

\* Mutant of BindOutput: no output is bound.
BindNothing(action, pool, issue) == [events |-> << >>, pool |-> pool]

\* `if action.object_id: reference_pool[action.object_id] = issue`
BindOutput(action, pool, issue) ==
    IF Truthy(action.object_id)
    THEN [events |-> <<BindEv(action.object_id, issue)>>,
          pool |-> PoolSet(pool, action.object_id, issue)]
    ELSE [events |-> << >>, pool |-> pool]

\* Mutant of CallThenBind: the output is bound before the remote call.
BindThenCall(p, api, target, b, created) ==
    Handled(p.events \o b.events \o <<CallEv(api, TRUE, p.fields, target)>>,
            b.pool, NoError, created)

\* A successful remote call, then the output binding `b`.
CallThenBind(p, api, target, b, created) ==
    Handled(p.events \o <<CallEv(api, TRUE, p.fields, target)>> \o b.events,
            b.pool, NoError, created)

\* Mutant of RemoteCall: the output is bound whether the call succeeds or not.
BindWhateverTheCall(p, api, target, ok, b, created_after) ==
    IF ~ok
    THEN Handled(p.events \o <<CallEv(api, FALSE, p.fields, target)>> \o b.events,
                 b.pool, JIRAError(api), created_after.before)
    ELSE CallThenBind(p, api, target, b, created_after.after)

\* The remote call `api` on the prepared payload; `ok` is whether it succeeds.
RemoteCall(p, api, target, ok, b, created_after) ==
    IF ~ok
    THEN Handled(p.events \o <<CallEv(api, FALSE, p.fields, target)>>,
                 p.pool, JIRAError(api), created_after.before)
    ELSE CallThenBind(p, api, target, b, created_after.after)

NoBinding(p) == [events |-> << >>, pool |-> p.pool]

\* actions.py 30-38, after the two preparing statements.
CreateAfter(action, p, ok, created) ==
    IF p.err # NoError THEN Handled(p.events, p.pool, p.err, created)
    ELSE IF Subscript(p.fields, "issuetype", "name") # NoError
    THEN Handled(p.events, p.pool, Subscript(p.fields, "issuetype", "name"), created)
    ELSE RemoteCall(p, "create_issue", IssueVal(NewIssue(created + 1)), ok,
                    BindOutput(action, p.pool, IssueVal(NewIssue(created + 1))),
                    [before |-> created, after |-> created + 1])

\* joft.actions.create_ticket; `ok` is whether create_issue succeeds.
create_ticket(action, pool, ok, created) ==
    CreateAfter(action, Prepare(action, pool), ok, created)

\* Mutant of ReferencedAfter: the reference_id is not looked up before the call.
ReferencedUnchecked(action, p, ok, created, api) ==
    IF p.err # NoError THEN Handled(p.events, p.pool, p.err, created)
    ELSE RemoteCall(p, api, NullV, ok, BindOutput(action, p.pool, NullV),
                    [before |-> created, after |-> created])

\* actions.py 60-77 and 129-150, after the two preparing statements: the
\* reference_id check, the read of ticket_to.key for the log, the remote call
\* on ticket_to, the binding.
ReferencedAfter(action, p, ok, created, api) ==
    IF p.err # NoError THEN Handled(p.events, p.pool, p.err, created)
    ELSE IF ~PoolHas(p.pool, action.reference_id)
    THEN Handled(p.events, p.pool,
                 Raise("Exception", InvalidReference(action.reference_id)), created)
    ELSE IF PoolGet(p.pool, action.reference_id).t # "issue"
    THEN Handled(p.events, p.pool, Raise("AttributeError", Text("key")), created)
    ELSE RemoteCall(p, api, PoolGet(p.pool, action.reference_id), ok,
                    BindOutput(action, p.pool, PoolGet(p.pool, action.reference_id)),
                    [before |-> created, after |-> created])

\* joft.actions.update_ticket
update_ticket(action, pool, ok, created) ==
    ReferencedAfter(action, Prepare(action, pool), ok, created, "update")

\* joft.actions.transition_issue
transition_issue(action, pool, ok, created) ==
    ReferencedAfter(action, Prepare(action, pool), ok, created, "transition_issue")

\* actions.py 98-107, after the two preparing statements: no output binding.
LinkAfter(p, ok, created) ==
    IF p.err # NoError THEN Handled(p.events, p.pool, p.err, created)
    ELSE IF FirstMissing(p.fields, <<"type", "inward_issue", "outward_issue">>) # NoError
    THEN Handled(p.events, p.pool,
                 FirstMissing(p.fields, <<"type", "inward_issue", "outward_issue">>),
                 created)
    ELSE RemoteCall(p, "create_issue_link", NullV, ok, NoBinding(p),
                    [before |-> created, after |-> created])

\* joft.actions.link_issues
link_issues(action, pool, ok, created) ==
    LinkAfter(Prepare(action, pool), ok, created)

\* `case _: logger.warning(...)` of execute_actions (base.py 196-197).
unknown_action(action, pool, ok, created) ==
    Handled(<<WarnEv(action.type)>>, pool, NoError, created)

\* The `match action.type` of execute_actions (base.py 171-197).
Dispatch(action, pool, ok, created) ==
    CASE action.type = "create-ticket" -> create_ticket(action, pool, ok, created)
      [] action.type = "update-ticket" -> update_ticket(action, pool, ok, created)
      [] action.type = "link-issues" -> link_issues(action, pool, ok, created)
      [] action.type = "transition" -> transition_issue(action, pool, ok, created)
      [] OTHER -> unknown_action(action, pool, ok, created)

\* ------------------------------------------------------------- the inputs
\* The identifiers the templates use.  An object_id may have a dot in it:
\* "issue.key" is then the key the resolver writes the key of "issue" under.
IssueId == <<"issue">>
IssueKeyId == <<"issue", "key">>
TicketId == <<"ticket">>
DoneId == <<"done">>
LinkId == <<"link">>
UpdatedId == <<"updated">>

RawAction(type, object_id, reference_id, reuse_data, fields) ==
    [type |-> type, object_id |-> object_id, reference_id |-> reference_id,
     reuse_data |-> reuse_data, fields |-> fields]

Field(name, val) == [f |-> name, v |-> val]
Sub(name, text) == [sk |-> name, sv |-> text]

CreateFields ==
    <<Field("project", MapV(<<Sub("key", Text("TEST"))>>)),
      Field("issuetype", MapV(<<Sub("name", Text("Story"))>>)),
      Field("summary", StrV(<<Tok(<<"issue", "key">>), Lit(<<" - ">>),
                              Tok(<<"issue", "summary">>)>>))>>
PlainFields ==
    <<Field("project", MapV(<<Sub("key", Text("TEST"))>>)),
      Field("issuetype", MapV(<<Sub("name", Text("Bug"))>>)),
      Field("story_points", NumV)>>
UpdateFields ==
    <<Field("description", StrV(<<Lit(<<"see ">>), Tok(<<"ticket", "key">>)>>))>>
NoteFields ==
    <<Field("description", StrV(<<Lit(<<"from ">>), Tok(<<"issue", "key">>)>>))>>
LinkFields ==
    <<Field("type", StrV(Text("blocks"))),
      Field("inward_issue", StrV(<<Tok(<<"issue", "key">>)>>)),
      Field("outward_issue", StrV(<<Tok(<<"ticket", "key">>)>>))>>
TransitionFields ==
    <<Field("priority", MapV(<<Sub("name", <<Tok(<<"issue", "priority">>)>>)>>))>>

\* The raw actions the templates are built from.
RawActions ==
    { RawAction("create-ticket", TicketId, None,
                ReuseList(<<Decl(IssueId, <<"key", "summary">>)>>), CreateFields),
      RawAction("create-ticket", IssueId, None, NoReuse, PlainFields),
      RawAction("create-ticket", None, None,
                ReuseList(<<Decl(TicketId, <<"key", "nofield">>)>>), PlainFields),
      RawAction("update-ticket", EmptyStr, TicketId,
                ReuseList(<<Decl(TicketId, <<"key">>)>>), UpdateFields),
      RawAction("update-ticket", UpdatedId, TicketId,
                ReuseList(<<Decl(IssueId, <<"key">>)>>), NoteFields),
      RawAction("link-issues", LinkId, None,
                ReuseList(<<Decl(IssueId, <<"key">>), Decl(TicketId, <<"key">>)>>),
                LinkFields),
      RawAction("transition", DoneId, IssueId,
                ReuseList(<<Decl(IssueId, <<"priority">>)>>), TransitionFields),
      RawAction("new-ticket", TicketId, None, NoReuse, PlainFields),
      RawAction("create-ticket", IssueKeyId, None, NoReuse, PlainFields) }

RECURSIVE SeqsUpTo(_, _)
\* The sequences over S of length at most n.
SeqsUpTo(S, n) ==
    IF n = 0 THEN {<< >>}
    ELSE LET shorter == SeqsUpTo(S, n - 1)
         IN  shorter \cup {Append(q, x) : q \in shorter, x \in S}

Trigger(present, object_id) ==
    [present |-> present, object_id |-> object_id, jql |-> "project = TEST"]
NoTrigger == Trigger(FALSE, None)

Templates ==
    [trigger : {NoTrigger, Trigger(TRUE, IssueId)},
     actions : SeqsUpTo(RawActions, MaxActions)]

\* The action objects built from the raw actions (models.py 50-55, 133-140).
ActionInit(raw) ==
    [type |-> raw.type, object_id |-> raw.object_id,
     reference_id |-> raw.reference_id,
     reference_data |-> raw.reuse_data.items, fields |-> raw.fields]

\* -------------------------------------------------------- the run loop
VARIABLES
    pc,              \* where the process is: idle, load, search, pass, act, done
    entry,           \* the function the caller entered
    template,        \* the parsed template file (its trigger and raw actions)
    jira_actions,    \* the action objects of the JiraTemplate built from it
    trigger_result,  \* the issues the search returned
    ticket_i,        \* position of `for ticket in trigger_result`
    act_i,           \* position of `for action in jira_template.jira_actions`
    reference_pool,  \* the local of execute_actions_per_trigger_ticket
    default_pool,    \* the dict that is execute_actions' default argument
    created,         \* how many issues create_issue has returned so far
    log,             \* the events of the current call, oldest first
    result,          \* the outcome of the current call
    runs,            \* how many calls the process has made
    arg_pool,        \* a pool dict handed to the resolver and to substitution
    arg_fields,      \* a payload dict handed to substitution
    calls            \* the direct calls of the two functions made on them

\* The state of the run loop, and the arguments of the direct calls.
loopVars == <<pc, entry, template, jira_actions, trigger_result, ticket_i, act_i, reference_pool,
              default_pool, created, log, result, runs>>
callVars == <<arg_pool, arg_fields, calls>>
vars == <<loopVars, callVars>>

\* What a call printed or returned as text: a message, or a table.
NoOutput == [msg |-> << >>, headers |-> << >>, rows |-> << >>]
Running ==
    [status |-> "running", code |-> 0, stage |-> "", err |-> NoError, out |-> NoOutput]
\* Mutant of Returned: every return of a code is a return of 1.
ReturnedOne(code) ==
    [status |-> "returned", code |-> 1, stage |-> "", err |-> NoError,
     out |-> NoOutput]

Returned(code) ==
    [status |-> "returned", code |-> code, stage |-> "", err |-> NoError,
     out |-> NoOutput]
Raised(stage, err) ==
    [status |-> "raised", code |-> 0, stage |-> stage, err |-> err, out |-> NoOutput]
\* list_issues returns a string, not a code.
ReturnedText(out) ==
    [status |-> "returned", code |-> 0, stage |-> "", err |-> NoError, out |-> out]

\* execute_actions got no reference_pool argument: it works on its default.
UsesDefault == entry = "execute_actions" \/ ~template.trigger.present
CurPool == IF UsesDefault THEN default_pool ELSE reference_pool
CurPass == IF UsesDefault THEN 1 ELSE ticket_i

Stamp(events, p, i) ==
    [n \in 1..Len(events) |-> [pass |-> p, act |-> i] @@ events[n]]
RaiseEv(err) == Ev("raise", err.type, FALSE, << >>, None, NullV)

\* No call of the run loop has been made.
LoopInit ==
    /\ pc = "idle"
    /\ entry = "execute_template"
    /\ template = [trigger |-> NoTrigger, actions |-> << >>]
    /\ jira_actions = << >>
    /\ trigger_result = << >>
    /\ ticket_i = 1
    /\ act_i = 1
    /\ reference_pool = << >>
    /\ default_pool = << >>
    /\ created = 0
    /\ log = << >>
    /\ result = Running
    /\ runs = 0

Init ==
    /\ LoopInit
    /\ arg_pool = << >>
    /\ arg_fields = << >>
    /\ calls = << >>

\* Mutant of FirstStage: the search runs without the template being validated.
FirstStageSearch == "search"

\* The first statement of execute_template (base.py 107).
FirstStage == "load"

\* The jira_actions that JiraTemplate.__post_init__ builds (models.py 124-142).
JiraActions(t) == [i \in 1..Len(t.actions) |-> ActionInit(t.actions[i])]

\* The caller calls execute_template(template_file_path, jira_session).
CallExecuteTemplate ==
    /\ pc = "idle"
    /\ runs < MaxRuns
    /\ \E t \in Templates : template' = t
    /\ entry' = "execute_template"
    /\ pc' = FirstStage
    /\ runs' = runs + 1
    /\ UNCHANGED <<jira_actions, trigger_result, ticket_i, act_i, reference_pool, default_pool,
                   created, log, result,
                   callVars>>

\* The caller calls list_issues(template_file_path, jira_session).
CallListIssues ==
    /\ pc = "idle"
    /\ runs < MaxRuns
    /\ \E t \in Templates : template' = t
    /\ entry' = "list_issues"
    /\ pc' = FirstStage
    /\ runs' = runs + 1
    /\ UNCHANGED <<jira_actions, trigger_result, ticket_i, act_i, reference_pool,
                   default_pool, created, log, result,
                   callVars>>

\* The caller calls execute_actions(jira_template, jira_session) itself, on a
\* template object whose jira_actions it built.
CallExecuteActions ==
    /\ pc = "idle"
    /\ runs < MaxRuns
    /\ \E t \in Templates :
         /\ ~t.trigger.present
         /\ template' = t
         /\ jira_actions' = JiraActions(t)
    /\ entry' = "execute_actions"
    /\ pc' = "act"
    /\ runs' = runs + 1
    /\ UNCHANGED <<trigger_result, ticket_i, act_i, reference_pool, default_pool,
                   created, log, result,
                   callVars>>

\* Where execute_template goes after load_and_validate_template (base.py 107-130).
AfterLoad(err) ==
    IF err # NoError THEN "done"
    ELSE IF template.trigger.present THEN "search" ELSE "act"

\* Where list_issues goes after load_and_validate_template (base.py 64-66).
AfterLoadToList(err) == IF err # NoError THEN "done" ELSE "search"

LoadAndValidate ==
    /\ pc = "load"
    /\ LET err == load_and_validate_template(template)
       IN  /\ pc' = IF entry = "list_issues" THEN AfterLoadToList(err)
                     ELSE AfterLoad(err)
           /\ result' = IF err # NoError THEN Raised("load", err) ELSE result
           /\ jira_actions' = IF err # NoError THEN << >> ELSE JiraActions(template)
    /\ UNCHANGED <<entry, template, trigger_result, ticket_i, act_i, reference_pool,
                   default_pool, created, log, runs,
                   callVars>>

\* Mutant of AfterSearch: an empty result runs the actions all the same.
AfterSearchRunsActions(found) == IF found = << >> THEN "act" ELSE "pass"

\* Where execute_template goes with the search result (base.py 115-127).
AfterSearch(found) == IF found = << >> THEN "done" ELSE "pass"

\* The return code of execute_template when the search found nothing
\* (base.py 122).
NoTicketsCode == 0

\* search_issues, then the branch on its result; line 217 makes the pool.
Search ==
    /\ pc = "search"
    /\ entry = "execute_template"
    /\ \E n \in 0..MaxIssues, ok \in BOOLEAN :
        LET found == [i \in 1..n |-> SearchableIssue(i)]
            call == SearchCall(template.trigger.jql, ok)
        IN  IF ~ok
            THEN /\ log' = log \o Stamp(<<call, RaiseEv(JIRAError("search_issues"))>>, 0, 0)
                 /\ result' = Raised("search", JIRAError("search_issues"))
                 /\ pc' = "done"
                 /\ UNCHANGED trigger_result
            ELSE /\ log' = log \o Stamp(<<call>>, 0, 0)
                 /\ trigger_result' = found
                 /\ pc' = AfterSearch(found)
                 /\ result' = IF found = << >> THEN Returned(NoTicketsCode) ELSE result
    /\ ticket_i' = 1
    /\ reference_pool' = << >>
    /\ UNCHANGED <<entry, template, jira_actions, act_i, default_pool, created, runs,
                   callVars>>

\* "No issues found." (base.py 69).
NoIssuesFound ==
    [msg |-> Text("No issues found."), headers |-> << >>, rows |-> << >>]

\* tabulate.tabulate(table_result, ["Key", "URL"])
Tabulate(table_result) ==
    [msg |-> << >>, headers |-> <<"Key", "URL">>, rows |-> table_result]

\* Mutant of TableResult: the rows are listed last match first.
TableResultReversed(found) ==
    [i \in 1..Len(found) |-> <<IssueKeyOf(found[Len(found) + 1 - i]),
                               Permalink(found[Len(found) + 1 - i])>>]

\* `[[issue.key, issue.permalink()] for issue in trigger_result]` (base.py 71).
TableResult(found) ==
    [i \in 1..Len(found) |-> <<IssueKeyOf(found[i]), Permalink(found[i])>>]

\* What list_issues returns for a search result (base.py 68-73).
Listing(found) ==
    IF found = << >> THEN NoIssuesFound ELSE Tabulate(TableResult(found))

\* The message of search_issues when the template has no trigger (base.py 56).
NoSearchQuery == Raise("ValueError", Text("No search query defined in template"))

\* search_issues as list_issues calls it, then the listing (base.py 66-73).
ListIssues ==
    /\ pc = "search"
    /\ entry = "list_issues"
    /\ IF ~template.trigger.present
       THEN /\ log' = log \o Stamp(<<RaiseEv(NoSearchQuery)>>, 0, 0)
            /\ result' = Raised("search", NoSearchQuery)
            /\ UNCHANGED trigger_result
       ELSE \E n \in 0..MaxIssues, ok \in BOOLEAN :
              LET found == [i \in 1..n |-> SearchableIssue(i)]
                  call == SearchCall(template.trigger.jql, ok)
              IN  IF ~ok
                  THEN /\ log' = log \o Stamp(<<call, RaiseEv(JIRAError("search_issues"))>>,
                                              0, 0)
                       /\ result' = Raised("search", JIRAError("search_issues"))
                       /\ UNCHANGED trigger_result
                  ELSE /\ log' = log \o Stamp(<<call>>, 0, 0)
                       /\ trigger_result' = found
                       /\ result' = ReturnedText(Listing(found))
    /\ pc' = "done"
    /\ UNCHANGED <<entry, template, jira_actions, ticket_i, act_i, reference_pool,
                   default_pool, created, runs,
                   callVars>>

\* `reference_pool[jira_template.jira_search.object_id] = ticket` (base.py 220).
BeginPass ==
    /\ pc = "pass"
    /\ ticket_i <= Len(trigger_result)
    /\ reference_pool' = PoolSet(reference_pool, template.trigger.object_id,
                                 IssueVal(trigger_result[ticket_i]))
    /\ act_i' = 1
    /\ pc' = "act"
    /\ UNCHANGED <<entry, template, jira_actions, trigger_result, ticket_i, default_pool, created,
                   log, result, runs,
                   callVars>>

\* Mutant of AfterAction: the loop goes on after an error.
ContinueAfterAction(err) == "act"

\* Where the run goes after a handler (no try/except anywhere in base.py).
AfterAction(err) == IF err = NoError THEN "act" ELSE "done"

\* The payload a handler left in the action object it was given: the one
\* apply_reference_pool_to_payload wrote into, when the handler got that far.
FieldsLeftBy(h, fields) ==
    IF \E i \in 1..Len(h.events) : h.events[i].e = "subst"
    THEN h.events[CHOOSE i \in 1..Len(h.events) : h.events[i].e = "subst"].payload
    ELSE fields

\* Mutant of ActionAfterHandler: the handler works on the template's own object.
ActionSharedWithHandler(action, h) ==
    [action EXCEPT !.fields = FieldsLeftBy(h, action.fields)]

\* The action object of the template after `copy.deepcopy(action)` was handed
\* to the handler (base.py 172-195): the handler wrote into the copy.
ActionAfterHandler(action, h) == action

\* One iteration of `for action in jira_template.jira_actions`.
Step(h) ==
    /\ jira_actions' = [jira_actions EXCEPT ![act_i] = ActionAfterHandler(@, h)]
    /\ log' = log \o Stamp(h.events \o (IF h.err # NoError THEN <<RaiseEv(h.err)>>
                                        ELSE << >>),
                           CurPass, act_i)
    /\ IF UsesDefault
       THEN default_pool' = h.pool /\ UNCHANGED reference_pool
       ELSE reference_pool' = h.pool /\ UNCHANGED default_pool
    /\ created' = h.created
    /\ act_i' = act_i + 1
    /\ pc' = AfterAction(h.err)
    /\ result' = IF h.err # NoError THEN Raised("action", h.err) ELSE result
    /\ UNCHANGED <<entry, template, trigger_result, ticket_i, runs,
                   callVars>>

AtAction(type) ==
    /\ pc = "act"
    /\ act_i <= Len(jira_actions)
    /\ jira_actions[act_i].type = type

CurAction == jira_actions[act_i]

CreateTicket ==
    /\ AtAction("create-ticket")
    /\ \E ok \in BOOLEAN : Step(create_ticket(CurAction, CurPool, ok, created))

UpdateTicket ==
    /\ AtAction("update-ticket")
    /\ \E ok \in BOOLEAN : Step(update_ticket(CurAction, CurPool, ok, created))

LinkIssues ==
    /\ AtAction("link-issues")
    /\ \E ok \in BOOLEAN : Step(link_issues(CurAction, CurPool, ok, created))

TransitionIssue ==
    /\ AtAction("transition")
    /\ \E ok \in BOOLEAN : Step(transition_issue(CurAction, CurPool, ok, created))

SkipUnknown ==
    /\ pc = "act"
    /\ act_i <= Len(jira_actions)
    /\ jira_actions[act_i].type \notin ActionTypes
    /\ Step(unknown_action(CurAction, CurPool, TRUE, created))

\* Mutant of PoolAfterPass: the pool of the pass is kept for the next one.
PoolAfterPassKept == reference_pool

\* `reference_pool = {}` after the actions of one ticket (base.py 222).
PoolAfterPass == << >>

EndPass ==
    /\ pc = "act"
    /\ act_i > Len(jira_actions)
    /\ ~UsesDefault
    /\ reference_pool' = PoolAfterPass
    /\ ticket_i' = ticket_i + 1
    /\ pc' = "pass"
    /\ UNCHANGED <<entry, template, jira_actions, trigger_result, act_i, default_pool, created,
                   log, result, runs,
                   callVars>>

\* execute_actions_per_trigger_ticket returns; `return 0` (base.py 127).
ReturnTriggered ==
    /\ pc = "pass"
    /\ ticket_i > Len(trigger_result)
    /\ result' = Returned(0)
    /\ pc' = "done"
    /\ UNCHANGED <<entry, template, jira_actions, trigger_result, ticket_i, act_i, reference_pool,
                   default_pool, created, log, runs,
                   callVars>>

\* execute_actions returns; `return 0` (base.py 131).
ReturnUntriggered ==
    /\ pc = "act"
    /\ act_i > Len(jira_actions)
    /\ UsesDefault
    /\ result' = Returned(0)
    /\ pc' = "done"
    /\ UNCHANGED <<entry, template, jira_actions, trigger_result, ticket_i, act_i, reference_pool,
                   default_pool, created, log, runs,
                   callVars>>

\* The call is over; its locals are gone, the default argument is not.
BackToCaller ==
    /\ pc = "done"
    /\ pc' = "idle"
    /\ entry' = "execute_template"
    /\ template' = [trigger |-> NoTrigger, actions |-> << >>]
    /\ jira_actions' = << >>
    /\ trigger_result' = << >>
    /\ ticket_i' = 1
    /\ act_i' = 1
    /\ reference_pool' = << >>
    /\ log' = << >>
    /\ result' = Running
    /\ UNCHANGED <<default_pool, created, runs,
                   callVars>>

Next ==
    \/ CallExecuteTemplate
    \/ CallListIssues
    \/ CallExecuteActions
    \/ LoadAndValidate
    \/ Search
    \/ ListIssues
    \/ BeginPass
    \/ CreateTicket
    \/ UpdateTicket
    \/ LinkIssues
    \/ TransitionIssue
    \/ SkipUnknown
    \/ EndPass
    \/ ReturnTriggered
    \/ ReturnUntriggered
    \/ BackToCaller

Spec == Init /\ [][Next]_vars

\* ------------------------------- direct calls of the resolver and substitution
\* update_reference_pool and apply_reference_pool_to_payload called on their
\* own, on a pool and a payload that they change in place.
MaxCalls == 3

Bind(id, h) == [k |-> id, v |-> IssueVal(h)]

\* The pools the calls start from: the handles bound before a handler runs.
BasePools ==
    { << >>,
      <<Bind(IssueId, SearchableIssue(1))>>,
      <<Bind(IssueId, SearchableIssue(1)), Bind(TicketId, SearchableIssue(2))>> }

\* The reuse_data lists handed to the resolver.
DeclLists ==
    { <<Decl(IssueId, <<"key", "summary">>)>>,
      <<Decl(IssueId, <<"description", "key">>)>>,
      <<Decl(IssueId, <<"key", "description">>)>>,
      <<Decl(IssueId, <<"id", "link", "url", "permalink", "priority", "project",
                        "components", "status">>)>>,
      <<Decl(IssueId, <<"components">>), Decl(TicketId, <<"components">>)>>,
      <<Decl(TicketId, <<"key", "priority">>)>>,
      <<Decl(<<"issue", "key">>, <<"id">>)>>,
      <<Decl(IssueId, <<"key">>), Decl(<<"issue", "key">>, <<"id">>)>> }

\* The payloads handed to substitution.
Payloads ==
    { CreateFields,
      PlainFields,
      <<Field("summary", StrV(<<Tok(<<"issue", "description">>)>>))>>,
      <<Field("summary", StrV(<<Lit(<<"see ">>), Tok(<<"issue", "description">>),
                                Lit(<<" of ">>), Tok(<<"issue", "key">>)>>))>>,
      <<Field("summary", StrV(<<Tok(<<"nokey">>), Lit(<<" - ">>),
                                Tok(<<"issue", "key">>)>>))>>,
      <<Field("components", StrV(<<Tok(<<"issue", "components">>)>>))>>,
      <<Field("components", StrV(<<Tok(<<"ticket", "components">>),
                                   Tok(<<"issue", "components">>)>>))>>,
      <<Field("labels", StrListV(<<<<Tok(<<"issue", "key">>)>>, Text("static"),
                                   <<Tok(<<"nokey">>)>>>>))>>,
      <<Field("labels", StrV(<<Tok(<<"nokey">>)>>))>>,
      <<Field("priority", MapV(<<Sub("name", <<Tok(<<"issue", "priority">>)>>)>>))>>,
      <<Field("priority", MapV(<<Sub("id", Text("3"))>>))>>,
      <<Field("issuetype", StrV(Text("Story")))>>,
      <<Field("assignee", NullV)>>,
      <<Field("project", MapV(<<Sub("name", <<Tok(<<"issue", "project">>)>>)>>))>>,
      <<Field("story_points", NumV), Field("duedate", NullV)>>,
      <<Field("summary", StrV(<<Tok(IssueId), Lit(<<": ">>), Tok(<<"issue", "key">>)>>)),
        Field("story_points", NumV)>>,
      <<Field("project", MapV(<<Sub("key", <<Tok(<<"issue", "project">>)>>),
                                Sub("name", <<Tok(<<"issue", "project">>)>>),
                                Sub("id", <<Tok(<<"issue", "project">>)>>)>>))>>,
      <<Field("project", MapV(<<Sub("id", <<Tok(<<"issue", "project">>)>>)>>))>> }

CallInit ==
    /\ LoopInit
    /\ arg_pool \in BasePools
    /\ arg_fields \in Payloads
    /\ calls = << >>

\* The record of one call: its arguments before and after, its error and,
\* for a handler, the events it made.
Called(fn, decls, pool1, fields1, err, events) ==
    [fn |-> fn, decls |-> decls, pool0 |-> arg_pool, pool1 |-> pool1,
     fields0 |-> arg_fields, fields1 |-> fields1, err |-> err, events |-> events]

AfterResolve(decls, r) ==
    /\ arg_pool' = r.pool
    /\ calls' = Append(calls, Called("update_reference_pool", decls, r.pool,
                                     arg_fields, r.err, << >>))
    /\ UNCHANGED <<arg_fields, loopVars>>

\* update_reference_pool(reference_data, reference_pool)
UpdateReferencePool ==
    /\ Len(calls) < MaxCalls
    /\ \E decls \in DeclLists : AfterResolve(decls, update_reference_pool(decls, arg_pool))

AfterApply(r) ==
    /\ arg_fields' = r.fields
    /\ calls' = Append(calls, Called("apply_reference_pool_to_payload", << >>,
                                     arg_pool, r.fields, r.err, << >>))
    /\ UNCHANGED <<arg_pool, loopVars>>

\* apply_reference_pool_to_payload(reference_pool, fields)
ApplyReferencePoolToPayload ==
    /\ Len(calls) < MaxCalls
    /\ AfterApply(apply_reference_pool_to_payload(arg_pool, arg_fields))

\* A create-ticket action without object_id and reuse_data on the payload.
CreateOn(fields) ==
    ActionInit(RawAction("create-ticket", None, None, NoReuse, fields))

\* The payload a handler sent to the issue service, or the one it was given.
SentBy(h, fields) ==
    IF \E i \in 1..Len(h.events) : h.events[i].e = "call"
    THEN h.events[CHOOSE i \in 1..Len(h.events) : h.events[i].e = "call"].payload
    ELSE fields

AfterCreate(h) ==
    /\ arg_pool' = h.pool
    /\ calls' = Append(calls, Called("create_ticket", << >>, h.pool,
                                     SentBy(h, arg_fields), h.err, h.events))
    /\ UNCHANGED <<arg_fields, loopVars>>

\* The create-ticket arm of execute_actions (base.py 172-177) on its own:
\* create_ticket on a deep copy of the action, which leaves the payload of
\* the action as it was.
CallCreateTicket ==
    /\ Len(calls) < MaxCalls
    /\ \E ok \in BOOLEAN :
         AfterCreate(create_ticket(CreateOn(arg_fields), arg_pool, ok, 0))

CallNext ==
    \/ UpdateReferencePool
    \/ ApplyReferencePoolToPayload
    \/ CallCreateTicket

CallSpec == CallInit /\ [][CallNext]_vars

\* ------------------------------------------- the construction of one action
\* CreateTicketAction(**action), UpdateTicketAction(**action), ... called on
\* their own, as JiraTemplate.__post_init__ calls them.
ReuseValues ==
    { NoReuse,
      ReuseList(<< >>),
      ReuseList(<<Decl(IssueId, <<"key">>)>>),
      ReuseDict(Decl(IssueId, <<"key">>)),
      EmptyDict,
      EmptyString }

RawInputs ==
    { RawAction(type, TicketId, IssueId, reuse_data, PlainFields) :
          type \in ActionTypes, reuse_data \in ReuseValues }

\* The record of one construction: the raw action, the error raised and the
\* reference_data of the action object when there is one.
Constructed(raw, err) ==
    [fn |-> "Action.__init__", raw |-> raw, err |-> err,
     reference_data |-> IF err = NoError THEN ActionInit(raw).reference_data
                        ELSE << >>]

ConstructAction ==
    /\ Len(calls) < MaxCalls
    /\ \E raw \in RawInputs :
         calls' = Append(calls, Constructed(raw, ActionInitError(raw)))
    /\ UNCHANGED <<arg_pool, arg_fields, loopVars>>

InitNext == ConstructAction

InitSpec == Init /\ [][InitNext]_vars

\* ================================================================ claims
\* Helpers of the properties below: readings of the log and of the template.
ActionApis == {"create_issue", "update", "create_issue_link", "transition_issue"}
LogIdx == 1..Len(log)
IsCall(i) == log[i].e = "call"
IsActionCall(i) == IsCall(i) /\ log[i].api \in ActionApis
IsHandlerEvent(i) == log[i].e \in {"copy", "resolve", "subst", "bind", "warn"} \/ IsActionCall(i)
SearchReturned == \E i \in LogIdx : IsCall(i) /\ log[i].api = "search_issues" /\ log[i].ok
InTriggeredPass == entry = "execute_template" /\ template.trigger.present /\ pc = "act"

\* The issue handles a pool value carries.
HandlesOf(v) ==
    CASE v.t = "issue" -> {v.h}
      [] v.t = "obj" -> {v.o}
      [] v.t = "str" -> {v.s[i].h : i \in 1..Len(v.s)} \ {NoHandle}
      [] OTHER -> {}

\* The handles that belong to the pass under way: its matched issue and the
\* issues create_issue returned during it.
HandlesOfPass(p) ==
    {trigger_result[p]}
        \cup {log[i].val.h : i \in {j \in LogIdx : /\ IsCall(j)
                                                 /\ log[j].api = "create_issue"
                                                 /\ log[j].ok
                                                 /\ log[j].pass = p}}

\* C1: per-pass isolation.  In a triggered run the pool at the start of the
\* pass for issue k holds only the trigger's object_id bound to issue k, and
\* during the pass no pool value stems from an issue of another pass.
C1_PerPassIsolation ==
    InTriggeredPass =>
        /\ act_i = 1 =>
             reference_pool = <<[k |-> template.trigger.object_id,
                                 v |-> IssueVal(trigger_result[ticket_i])]>>
        /\ \A i \in 1..Len(reference_pool) :
             HandlesOf(reference_pool[i].v) \subseteq HandlesOfPass(ticket_i)

\* The second pass starts after the first pass bound an action's output.
C1_Witness ==
    /\ InTriggeredPass
    /\ ticket_i = 2
    /\ act_i = 1
    /\ \E i \in LogIdx : log[i].e = "bind" /\ log[i].pass = 1

\* C2: an untriggered run of execute_template starts its action sequence on
\* an empty pool, whatever earlier calls in the process did.
C2_FreshPoolUntriggered ==
    (entry = "execute_template" /\ pc = "act" /\ UsesDefault /\ act_i = 1)
        => CurPool = << >>

\* C3: when the trigger's search returns no issue, no action runs: no
\* create_issue, update, create_issue_link or transition_issue call (and no
\* other step of a handler) is in the run.
C3_NoActionsOnEmptySearch ==
    (entry = "execute_template" /\ template.trigger.present
        /\ SearchReturned /\ trigger_result = << >>)
        => \A i \in LogIdx : ~IsHandlerEvent(i) /\ log[i].e # "raise"

\* The run of a template with actions returned after an empty search.
C3_Witness ==
    /\ pc = "done"
    /\ template.trigger.present
    /\ SearchReturned
    /\ trigger_result = << >>
    /\ Len(template.actions) > 0
    /\ result.status = "returned"

\* C4: when the search returns no issue, execute_template returns a status
\* that differs from the status 0 of a successful run, and does not raise.
C4_NoMatchesStatusDistinct ==
    (pc = "done" /\ entry = "execute_template" /\ template.trigger.present
        /\ SearchReturned /\ trigger_result = << >>)
        => result.status = "returned" /\ result.code # 0

\* The declared identifiers of a template, by slot: 0 is the trigger, i is
\* action i.  An action declares one when its object_id is neither absent nor
\* empty; ProvidedSlots also counts an empty object_id.
SlotId(t, i) == IF i = 0 THEN t.trigger.object_id ELSE t.actions[i].object_id
TriggerSlot(t) == IF t.trigger.present THEN {0} ELSE {}
DeclaredSlots(t) ==
    TriggerSlot(t) \cup {i \in 1..Len(t.actions) : Truthy(t.actions[i].object_id)}
ProvidedSlots(t) ==
    TriggerSlot(t) \cup {i \in 1..Len(t.actions) : t.actions[i].object_id # None}
HasDuplicate(t, slots) ==
    \E i \in slots : \E j \in slots : i # j /\ SlotId(t, i) = SlotId(t, j)
Occurrences(t, slots, id) == Cardinality({i \in slots : SlotId(t, i) = id})
KnownKinds(t) == \A i \in 1..Len(t.actions) : t.actions[i].type \in ActionTypes
ReuseIsList(raw) == raw.reuse_data.items = << >> \/ raw.reuse_data.py = "list"
Constructible(t) == KnownKinds(t) /\ \A i \in 1..Len(t.actions) : ReuseIsList(t.actions[i])
Loaded == entry = "execute_template" /\ pc \notin {"idle", "load"}
RaisedAtLoad == result.status = "raised" /\ result.stage = "load"
Mentions(msg, id) == \E k \in 1..Len(msg) : msg[k] = Lit(id)

\* What C5 asks of the validation, for the identifiers in `slots`.
UniquenessHolds(slots) ==
    IF HasDuplicate(template, slots)
    THEN /\ RaisedAtLoad
         /\ \E i \in slots :
              /\ Occurrences(template, slots, SlotId(template, i)) >= 2
              /\ Mentions(result.err.msg, SlotId(template, i))
              /\ \A j \in slots :
                   Mentions(result.err.msg, SlotId(template, j))
                       => SlotId(template, j) = SlotId(template, i)
    ELSE ~RaisedAtLoad

\* C5 (as amended): the validation fails exactly when two of the declared
\* identifiers -- the trigger's object_id and every action's object_id that
\* is neither absent nor empty -- are equal, and the one identifier its
\* message names occurs at least twice.
C5_Uniqueness == (Loaded /\ Constructible(template)) => UniquenessHolds(DeclaredSlots(template))

\* Validation failed on a template whose first identifier is not the duplicate.
C5_Witness ==
    /\ pc = "done"
    /\ RaisedAtLoad
    /\ template.trigger.present
    /\ Mentions(result.err.msg, TicketId)
    /\ Constructible(template)

\* C5 (as stated): the same, counting every object_id an action gives, the
\* empty one included.
C5_UniquenessOfEveryObjectId ==
    (Loaded /\ Constructible(template)) => UniquenessHolds(ProvidedSlots(template))

\* C6: a run of execute_template whose template is invalid (an unknown
\* action kind, a duplicated identifier) makes no call to the issue service,
\* and a run that failed validation has made none.
C6_ValidationBeforeRemote ==
    entry = "execute_template" =>
        /\ (~Constructible(template)
                \/ HasDuplicate(template, DeclaredSlots(template))) => log = << >>
        /\ RaisedAtLoad => \A i \in LogIdx : ~IsCall(i)

\* Validation rejected a template that has a trigger and actions.
C6_Witness ==
    /\ pc = "done"
    /\ RaisedAtLoad
    /\ template.trigger.present
    /\ Len(template.actions) > 0

\* The first action of unknown kind, when the actions before it construct.
IsFirstUnknown(t, i) ==
    /\ t.actions[i].type \notin ActionTypes
    /\ \A j \in 1..(i - 1) : t.actions[j].type \in ActionTypes /\ ReuseIsList(t.actions[j])

\* C7 (as amended): template construction fails on an action of unknown kind
\* with an error naming that kind, so execute_template never dispatches one;
\* the dispatcher itself, handed such an action, logs a warning naming the
\* kind and goes on to the next action without failing.
C7_UnknownKind ==
    /\ Loaded =>
         \A i \in 1..Len(template.actions) :
             IsFirstUnknown(template, i) =>
                 /\ RaisedAtLoad
                 /\ result.err.msg = UnknownAction(template.actions[i].type)
                 /\ Mentions(result.err.msg, <<template.actions[i].type>>)
    /\ \A i \in LogIdx :
         log[i].e = "warn" =>
             /\ entry = "execute_actions"
             /\ template.actions[log[i].act].type \notin ActionTypes
             /\ log[i].api = template.actions[log[i].act].type
             /\ i < Len(log) => log[i + 1].e # "raise" /\ log[i + 1].act = log[i].act + 1

\* The dispatcher skipped an action of unknown kind and the call returned.
C7_Witness ==
    /\ pc = "done"
    /\ entry = "execute_actions"
    /\ result.status = "returned"
    /\ \E i \in LogIdx : log[i].e = "warn" /\ i < Len(log)

\* C7 (as stated): an action of unknown kind never passes without a failure,
\* neither at construction nor in the dispatcher.
C7_UnknownKindAlwaysFails ==
    /\ (Loaded /\ ~KnownKinds(template)) => result.status = "raised"
    /\ \A k \in 1..Len(template.actions) :
         (pc \in {"act", "done"} /\ k < act_i /\ template.actions[k].type \notin ActionTypes)
             => result.status = "raised"

\* Whether an action binds its output: it declares an object_id and is not a
\* link-issues action (nor of unknown kind).
BindExpected(a) ==
    a.type \in {"create-ticket", "update-ticket", "transition"} /\ Truthy(a.object_id)

SameAction(x, y) == x.pass = y.pass /\ x.act = y.act

\* y is the next event of the action x belongs to.
NextInAction(x, y) ==
    CASE x.e = "copy" -> y.e = "resolve"
      [] x.e = "resolve" -> IF x.ok THEN y.e = "subst" ELSE y.e = "raise"
      [] x.e = "subst" -> IF x.ok THEN y.e \in {"call", "raise"} ELSE y.e = "raise"
      [] x.e = "call" ->
           IF x.ok THEN y.e = "bind" /\ BindExpected(template.actions[x.act])
           ELSE y.e = "raise"
      [] OTHER -> FALSE

\* x ends its action and y starts the action that comes next: the following
\* action of the pass, or the first action of the following pass.
NextAction(x, y) ==
    /\ y.e \in {"copy", "warn"}
    /\ \/ x.e \in {"bind", "warn"}
       \/ x.e = "call" /\ x.ok /\ ~BindExpected(template.actions[x.act])
    /\ \/ y.pass = x.pass /\ y.act = x.act + 1
       \/ y.pass = x.pass + 1 /\ y.act = 1 /\ x.act = Len(template.actions)

\* C8: within every pass and for each action, in declared order and once:
\* copy, resolve, substitute, remote call (on the substituted payload), then
\* the output binding if the action has one; action k+1 starts after action k
\* ended, the pass of issue i+1 after the last action of the pass of issue i,
\* the issues in search-result order; a run that returns has done every
\* action of every pass.
C8_StepOrder ==
    /\ \A i \in LogIdx :
         log[i].pass >= 1 =>
             /\ (i = 1 \/ log[i - 1].pass = 0) =>
                  log[i].e \in {"copy", "warn"} /\ log[i].pass = 1 /\ log[i].act = 1
             /\ i < Len(log) =>
                  IF SameAction(log[i], log[i + 1])
                  THEN NextInAction(log[i], log[i + 1])
                  ELSE NextAction(log[i], log[i + 1])
             /\ (i = Len(log) /\ log[i].e = "call" /\ log[i].ok)
                  => ~BindExpected(template.actions[log[i].act])
             /\ IsCall(i) => log[i - 1].e = "subst" /\ log[i].payload = log[i - 1].payload
    /\ InTriggeredPass =>
         /\ ticket_i \in 1..Len(trigger_result)
         /\ PoolHas(reference_pool, template.trigger.object_id)
         /\ PoolGet(reference_pool, template.trigger.object_id)
              = IssueVal(trigger_result[ticket_i])
         /\ trigger_result[ticket_i] = SearchableIssue(ticket_i)
    /\ (pc = "done" /\ entry # "list_issues" /\ result.status = "returned"
            /\ Len(template.actions) > 0
            /\ (UsesDefault \/ trigger_result # << >>))
         => /\ log # << >>
            /\ log[Len(log)].act = Len(template.actions)
            /\ log[Len(log)].pass = IF UsesDefault THEN 1 ELSE Len(trigger_result)
            /\ log[Len(log)].e \in {"bind", "call", "warn"}

\* A triggered run of two actions over two issues returned, and its second
\* pass bound an output.
C8_Witness ==
    /\ pc = "done"
    /\ result.status = "returned"
    /\ template.trigger.present
    /\ Len(trigger_result) = 2
    /\ Len(template.actions) = 2
    /\ \E i \in LogIdx : log[i].e = "bind" /\ log[i].pass = 2 /\ log[i].act = 1

\* C9: a fatal error aborts the whole run: the error is the last thing that
\* happens in it -- no step or remote call of a later action or of a later
\* pass follows, and the failing call is not made again.
C9_AbortOnError ==
    /\ \A i \in LogIdx :
         /\ log[i].e = "raise" => i = Len(log) /\ result.status = "raised"
         /\ ~log[i].ok => (log[i].e = "raise" \/ log[i + 1].e = "raise")
    /\ result.status = "raised" =>
         /\ pc = "done"
         /\ result.stage # "load" => log[Len(log)].e = "raise"

\* The first action of the first pass of two failed in its remote call, with
\* another action after it.
C9_Witness ==
    /\ pc = "done"
    /\ result.status = "raised"
    /\ result.err.type = "JIRAError"
    /\ template.trigger.present
    /\ Len(trigger_result) = 2
    /\ ticket_i = 1
    /\ Len(template.actions) = 2
    /\ log[Len(log)].act = 1

\* The pool update_reference_pool has made when it reaches declaration k.
FailsNamingMissing(r, id) ==
    /\ r.err.type = "Exception"
    /\ r.err.msg = UsedBeforeDeclared(id)
    /\ Mentions(r.err.msg, id)
    /\ Mentions(r.err.msg, <<"' is used before it was declared.">>)

MissingWhenReached(declarations, pool, k, before) ==
    (before.err = NoError /\ ~PoolHas(before.pool, declarations[k].reference_id))
        => FailsNamingMissing(update_reference_pool(declarations, pool),
                              declarations[k].reference_id)

\* C10: update_reference_pool fails on every declaration list with a
\* declaration whose reference_id is not a key of the pool when it is
\* reached, with an error that names that reference_id and says it was used
\* before it was declared; so does the action it was called for.
C10_MissingReference ==
    /\ (pc = "act" /\ act_i <= Len(template.actions)) =>
         \A k \in 1..Len(CurAction.reference_data) :
             MissingWhenReached(CurAction.reference_data, CurPool, k,
                                update_reference_pool(
                                    SubSeq(CurAction.reference_data, 1, k - 1), CurPool))
    /\ \A i \in LogIdx :
         (log[i].e = "resolve" /\ ~log[i].ok /\ result.err.type = "Exception") =>
             \E k \in 1..Len(template.actions[log[i].act].reuse_data.items) :
                 LET id == template.actions[log[i].act].reuse_data.items[k].reference_id
                 IN  /\ ~PoolHas(CurPool, id)
                     /\ FailsNamingMissing(result, id)

\* The second declaration of an action named an identifier that was not in
\* the pool, after the first declaration had been resolved.
C10_Witness ==
    /\ pc = "done"
    /\ result.status = "raised"
    /\ result.err.msg = UsedBeforeDeclared(TicketId)
    /\ PoolHas(CurPool, CompositeKey(IssueId, "key"))
    /\ \E i \in LogIdx : log[i].e = "resolve" /\ ~log[i].ok

\* ------------------------------------------------- claims on the direct calls
CallIdx == 1..Len(calls)
IsResolve(c) == c.fn = "update_reference_pool"
IsApply(c) == c.fn = "apply_reference_pool_to_payload"
Succeeded(c) == c.err = NoError

\* The keys "id.f" of a declaration list, written out segment by segment.
DottedKeys(decls) ==
    UNION {{decls[i].reference_id \o <<decls[i].fields[j]>> :
                j \in 1..Len(decls[i].fields)} : i \in 1..Len(decls)}

ResolverFrame(c) ==
    /\ PoolKeys(c.pool1) = PoolKeys(c.pool0) \cup DottedKeys(c.decls)
    /\ Len(c.pool1) = Cardinality(PoolKeys(c.pool1))
    /\ \A key \in PoolKeys(c.pool0) \ DottedKeys(c.decls) :
         PoolGet(c.pool1, key) = PoolGet(c.pool0, key)

\* C11: after update_reference_pool succeeds on declarations D, the keys of
\* the pool are the keys it had before plus the composite key "id.f" of every
\* declaration (id, fields) of D and every f of fields, and every entry that
\* is not one of those composite keys has the value it had before.
C11_ResolverFrame ==
    \A n \in CallIdx : (IsResolve(calls[n]) /\ Succeeded(calls[n])) => ResolverFrame(calls[n])

\* A list of two declarations was resolved on a pool that held composite keys
\* of an earlier call, one of them written again.
C11_Witness ==
    /\ Len(calls) = 2
    /\ IsResolve(calls[2]) /\ Succeeded(calls[2])
    /\ Len(calls[2].decls) = 2
    /\ Len(calls[2].pool0) = 10
    /\ Len(calls[2].pool1) = 11

\* The extraction table of the resolver, for the issue handle h.
TableValue(f, h) ==
    CASE f \in {"id", "key"} -> StrVal(IssueText(f, h))
      [] f \in {"link", "url", "permalink"} -> StrVal(IssueText("permalink", h))
      [] f = "priority" -> StrVal(IssueText("priority.name", h))
      [] f = "project" -> StrVal(IssueText("project.key", h))
      [] f = "components" -> RecListVal(ComponentNames(h))
      [] OTHER -> BagValue(h, f)

FollowsTable(c, id, f) ==
    /\ PoolHas(c.pool0, id)
    /\ PoolGet(c.pool0, id).t = "issue"
    /\ PoolGet(c.pool1, id \o <<f>>) = TableValue(f, PoolGet(c.pool0, id).h)

\* C12: the value the resolver writes under "id.f" follows the extraction
\* table: id and key give the identity attribute of the handle; link, url and
\* permalink give its permalink; priority gives fields.priority.name; project
\* gives fields.project.key; components gives the {name} records of
\* fields.components, as many and in the same order; any other name gives
\* the attribute of that name of the field bag.
C12_ExtractionTable ==
    \A n \in CallIdx :
        (IsResolve(calls[n]) /\ Succeeded(calls[n])) =>
            \A i \in 1..Len(calls[n].decls) :
                \A j \in 1..Len(calls[n].decls[i].fields) :
                    FollowsTable(calls[n], calls[n].decls[i].reference_id,
                                 calls[n].decls[i].fields[j])

\* One declaration of eight fields, every arm of the table among them, was
\* resolved on an issue that has two components.
C12_Witness ==
    /\ Len(calls) = 1
    /\ IsResolve(calls[1]) /\ Succeeded(calls[1])
    /\ Len(calls[1].decls[1].fields) = 8
    /\ PoolGet(calls[1].pool1, <<"issue", "components">>).t = "reclist"
    /\ Len(PoolGet(calls[1].pool1, <<"issue", "components">>).r) = 2
    /\ PoolGet(calls[1].pool1, <<"issue", "status">>).t = "obj"

\* C13: apply_reference_pool_to_payload is total: on every pool and every
\* payload of JSON-like values, under any field name, it ends without an error.
C13_SubstitutionTotal ==
    \A n \in CallIdx : IsApply(calls[n]) => Succeeded(calls[n])

\* The field names substitution treats on their own.
SpecialNames == {"project", "issuetype", "assignee", "priority", "labels", "components"}
PlainString(field) == field.v.t = "str" /\ field.f \notin SpecialNames
BoundToString(pool, key) == PoolHas(pool, key) /\ PoolGet(pool, key).t = "str"

RECURSIVE SubstituteAll(_, _)
\* The text with every token of a key bound to a string replaced by that
\* string, and everything else as it is.
SubstituteAll(text, pool) ==
    IF text = << >> THEN << >>
    ELSE (IF Head(text).ref /\ BoundToString(pool, Head(text).k)
          THEN PoolGet(pool, Head(text).k).s
          ELSE <<Head(text)>>) \o SubstituteAll(Tail(text), pool)

\* C14: in a string field with no special name, substitution replaces every
\* occurrence of the token ${ref}, for every pool key ref bound to a string,
\* by that string, however many distinct tokens the field has, and leaves the
\* text outside the tokens as it is.
C14_EveryTokenReplaced ==
    \A n \in CallIdx :
        (IsApply(calls[n]) /\ Succeeded(calls[n])) =>
            \A i \in 1..Len(calls[n].fields0) :
                PlainString(calls[n].fields0[i]) =>
                    calls[n].fields1[i].v
                        = StrV(SubstituteAll(calls[n].fields0[i].v.s, calls[n].pool0))

\* C15: substitution is idempotent: applied again, with the same pool, to the
\* payload a first application produced, it changes nothing.
C15_Idempotent ==
    \A n \in CallIdx :
        (n > 1 /\ IsApply(calls[n]) /\ IsApply(calls[n - 1])
            /\ Succeeded(calls[n - 1]) /\ calls[n].pool0 = calls[n - 1].pool0)
            => calls[n].fields1 = calls[n].fields0 /\ Succeeded(calls[n])

\* The pool entries bound to a list whose token the string field i holds.
ListRefs(c, i) ==
    {k \in 1..Len(c.pool0) :
        c.pool0[k].v.t = "reclist" /\ HasToken(c.fields0[i].v.s, c.pool0[k].k)}
FirstOf(S) == CHOOSE k \in S : \A j \in S : k <= j
ComponentsString(field) == field.f = "components" /\ field.v.t = "str"

\* C16 (as amended): when the string under "components" holds the token of a
\* pool key bound to a list, substitution replaces the whole value by a list
\* of the pool, nothing of the string remaining: the list of the first such
\* key in the insertion order of the pool.  The token of a later list is not
\* looked for, the value being no string any more.
C16_ComponentsWholeValue ==
    \A n \in CallIdx :
        (IsApply(calls[n]) /\ Succeeded(calls[n])) =>
            \A i \in 1..Len(calls[n].fields0) :
                (ComponentsString(calls[n].fields0[i]) /\ ListRefs(calls[n], i) # {}) =>
                    /\ calls[n].fields1[i].v.t = "reclist"
                    /\ calls[n].fields1[i].v
                         = calls[n].pool0[FirstOf(ListRefs(calls[n], i))].v

\* "components" named the lists of two issues, the later one of the pool
\* first, and the two lists differ.
C16_Witness ==
    /\ Len(calls) = 2
    /\ IsApply(calls[2]) /\ Succeeded(calls[2])
    /\ ComponentsString(calls[2].fields0[1])
    /\ Cardinality(ListRefs(calls[2], 1)) = 2
    /\ calls[2].fields0[1].v.s[1] = Tok(<<"ticket", "components">>)
    /\ calls[2].fields1[1].v = RecListVal(ComponentNames(SearchableIssue(1)))
    /\ ComponentNames(SearchableIssue(1)) # ComponentNames(SearchableIssue(2))

\* C16 (as stated): when "components" holds the token ${ref} and the pool
\* binds ref to a list, the value of the field after substitution is that list.
C16_ComponentsEveryRef ==
    \A n \in CallIdx :
        (IsApply(calls[n]) /\ Succeeded(calls[n])) =>
            \A i \in 1..Len(calls[n].fields0) :
                ComponentsString(calls[n].fields0[i]) =>
                    \A k \in ListRefs(calls[n], i) :
                        calls[n].fields1[i].v = calls[n].pool0[k].v

RECURSIVE IsSubseq(_, _)
\* Whether a is b with some of its elements left out.
IsSubseq(a, b) ==
    IF a = << >> THEN TRUE
    ELSE IF b = << >> THEN FALSE
    ELSE IF Head(a) = Head(b) THEN IsSubseq(Tail(a), Tail(b))
    ELSE IsSubseq(a, Tail(b))

\* The tokens of a text whose key the pool does not have, in their order.
Unresolved(text, pool) == SelectSeq(text, LAMBDA a : a.ref /\ ~PoolHas(pool, a.k))
TokensKept(s0, s1, pool) == IsSubseq(Unresolved(s0, pool), Unresolved(s1, pool))

\* Every unresolved token of the value v0 is where it was in v1.
Kept(v0, v1, pool) ==
    CASE v0.t = "str" -> v1.t = "str" /\ TokensKept(v0.s, v1.s, pool)
      [] v0.t = "map" ->
           /\ v1.t = "map"
           /\ Len(v1.m) = Len(v0.m)
           /\ \A k \in 1..Len(v0.m) :
                v1.m[k].sk = v0.m[k].sk /\ TokensKept(v0.m[k].sv, v1.m[k].sv, pool)
      [] v0.t = "strlist" ->
           /\ v1.t = "strlist"
           /\ Len(v1.l) = Len(v0.l)
           /\ \A k \in 1..Len(v0.l) : TokensKept(v0.l[k], v1.l[k], pool)
      [] OTHER -> v1 = v0

\* The two places where substitution replaces a value as a whole.
WholeValueReplaced(f, v1) ==
    \/ f = "components" /\ v1.t = "reclist"
    \/ f = "labels" /\ v1.t = "charlist"

\* The payload a handler substituted is the payload it sent.
SentAsSubstituted(events) ==
    \A k \in 1..Len(events) :
        events[k].e = "call" =>
            k > 1 /\ events[k - 1].e = "subst" /\ events[k].payload = events[k - 1].payload

\* The calls that substituted a payload to the end.
SubstitutedBy(c) ==
    \/ IsApply(c) /\ Succeeded(c)
    \/ c.fn = "create_ticket" /\ \E k \in 1..Len(c.events) : c.events[k].e = "call"

\* C17 (as amended): an unresolved placeholder is no error and stays where
\* substitution replaces tokens: a token ${ref} whose ref is no key of the
\* pool is left verbatim in a string field, in a sub-field of a mapping and
\* in the strings of a list, and the handler sends the payload holding it to
\* the remote call as substitution left it.  It goes only where the value is
\* replaced as a whole: "components" by a list of the pool, a string under
\* "labels" by the list of its characters.
C17_UnresolvedLeft ==
    \A n \in CallIdx :
        /\ SentAsSubstituted(calls[n].events)
        /\ SubstitutedBy(calls[n]) =>
             \A i \in 1..Len(calls[n].fields0) :
                 \/ Kept(calls[n].fields0[i].v, calls[n].fields1[i].v, calls[n].pool0)
                 \/ WholeValueReplaced(calls[n].fields0[i].f, calls[n].fields1[i].v)

\* create_issue got a payload in which one token was replaced and another,
\* of a key the pool does not have, was not.
C17_Witness ==
    /\ Len(calls) = 2
    /\ calls[2].fn = "create_ticket" /\ Succeeded(calls[2])
    /\ calls[2].fields0 = CreateFields
    /\ calls[2].fields1 # CreateFields
    /\ PoolHas(calls[2].pool0, <<"issue", "key">>)
    /\ ~PoolHas(calls[2].pool0, <<"issue", "summary">>)
    /\ HasToken(PayloadGet(calls[2].fields1, "summary").s, <<"issue", "summary">>)
    /\ ~HasToken(PayloadGet(calls[2].fields1, "summary").s, <<"issue", "key">>)

\* C17 (as stated): a token ${ref} whose ref is no key of the pool is left
\* verbatim in the payload, and the payload holding it goes to the remote
\* call unchanged.
C17_UnresolvedAlwaysLeft ==
    \A n \in CallIdx :
        /\ SentAsSubstituted(calls[n].events)
        /\ SubstitutedBy(calls[n]) =>
             \A i \in 1..Len(calls[n].fields0) :
                 Kept(calls[n].fields0[i].v, calls[n].fields1[i].v, calls[n].pool0)

\* C18: substitution resolves nothing twice: when the pool binds a to a
\* string that holds the token ${b} and binds b too, a field that held ${a}
\* still holds ${b} after substitution, whatever the order of a and b in the
\* pool.
C18_NoRecursiveResolution ==
    \A n \in CallIdx :
        (IsApply(calls[n]) /\ Succeeded(calls[n])) =>
            \A i \in 1..Len(calls[n].fields0) :
                PlainString(calls[n].fields0[i]) =>
                    \A a \in PoolKeys(calls[n].pool0) : \A b \in PoolKeys(calls[n].pool0) :
                        (/\ a # b
                         /\ BoundToString(calls[n].pool0, a)
                         /\ BoundToString(calls[n].pool0, b)
                         /\ HasToken(calls[n].fields0[i].v.s, a)
                         /\ HasToken(PoolGet(calls[n].pool0, a).s, b))
                            => HasToken(calls[n].fields1[i].v.s, b)

\* ------------------------------------------- claims on the output binding
\* The bare identifiers of a pool: the keys that are no composite "id.f".
BareKeys(pool) == {key \in PoolKeys(pool) : Len(key) = 1}
\* The keys of a pool that the declarations of the action a do not write.
OutputKeys(pool, a) == PoolKeys(pool) \ DottedKeys(a.reference_data)
AboutToRun == pc = "act" /\ act_i <= Len(template.actions)
HasEvent(events, e) == \E k \in 1..Len(events) : events[k].e = e
Referencing(a) == a.type \in {"update-ticket", "transition"}

\* What the pool `after` binds when the action a succeeded on the pool
\* `before`, a counting as declaring an object_id when `declares` says so.
BoundAsClaimed(a, declares, before, after, new_issue) ==
    IF declares /\ a.type = "create-ticket"
    THEN /\ OutputKeys(after, a) = OutputKeys(before, a) \cup {a.object_id}
         /\ PoolGet(after, a.object_id) = IssueVal(new_issue)
    ELSE IF declares /\ Referencing(a)
    THEN /\ OutputKeys(after, a) = OutputKeys(before, a) \cup {a.object_id}
         /\ PoolHas(before, a.reference_id)
         /\ PoolGet(after, a.object_id) = PoolGet(before, a.reference_id)
    ELSE OutputKeys(after, a) = OutputKeys(before, a)

\* The same for the outcome h of the handler, when the handler succeeded;
\* and every bare identifier that was bound before is bound as it was,
\* unless it is the object_id.
BindingOf(a, declares, before, h, new_issue) ==
    h.err = NoError =>
        /\ BoundAsClaimed(a, declares, before, h.pool, new_issue)
        /\ \A key \in OutputKeys(before, a) \ {a.object_id} :
             PoolGet(h.pool, key) = PoolGet(before, key)

\* C19 (as amended): after a successful action whose object_id is neither
\* absent nor empty, the pool binds that id to the issue create_issue
\* returned for create-ticket, and to the handle bound to the action's
\* reference_id for update-ticket and transition; a link-issues action adds
\* no bare identifier, not even when it declares an object_id, and an action
\* whose object_id is absent or empty adds none.
C19_OutputBinding ==
    (AboutToRun /\ CurAction.type \in ActionTypes) =>
        BindingOf(CurAction, Truthy(CurAction.object_id), CurPool,
                  Dispatch(CurAction, CurPool, TRUE, created), NewIssue(created + 1))

\* A link-issues action that declares an object_id succeeded after a
\* create-ticket action: the pool binds the output of the one and not of the
\* other.
C19_Witness ==
    /\ pc = "act"
    /\ act_i = 3
    /\ template.actions[1].type = "create-ticket"
    /\ template.actions[2].type = "link-issues"
    /\ template.actions[2].object_id = LinkId
    /\ log[Len(log)].e = "call" /\ log[Len(log)].ok /\ log[Len(log)].act = 2
    /\ PoolHas(CurPool, TicketId)
    /\ PoolGet(CurPool, TicketId) = IssueVal(NewIssue(created))
    /\ ~PoolHas(CurPool, LinkId)

\* C19 (as stated): the same, for every create-ticket, update-ticket and
\* transition action that declares an object_id, the empty one included.
C19_OutputBindingOfEveryObjectId ==
    (AboutToRun /\ CurAction.type \in ActionTypes) =>
        BindingOf(CurAction, CurAction.object_id # None, CurPool,
                  Dispatch(CurAction, CurPool, TRUE, created), NewIssue(created + 1))

\* ------------------------------------------ claims on the reference check
\* The handler failed without a remote call and without binding anything.
FailedBeforeCall(before, h) ==
    /\ h.err # NoError
    /\ ~HasEvent(h.events, "call")
    /\ ~HasEvent(h.events, "bind")
    /\ BareKeys(h.pool) = BareKeys(before)

NamesReference(err, id) ==
    /\ err.type = "Exception"
    /\ err.msg = InvalidReference(id)
    /\ Mentions(err.msg, id)

\* What the handler does with a reference_id the pool lacks, p being what
\* its two preparing statements left.
MissingReferenceFails(a, before, p, h) ==
    /\ FailedBeforeCall(before, h)
    /\ p.err # NoError => h.err = p.err
    /\ (p.err = NoError /\ ~PoolHas(p.pool, a.reference_id))
            => NamesReference(h.err, a.reference_id)

\* C20 (as amended): an update-ticket or transition action whose
\* reference_id is no key of the pool fails, makes no update or
\* transition_issue call and binds no output identifier.  When resolving its
\* reuse_data and substituting its payload raised nothing, the error is the
\* one of the reference check and names that reference_id; otherwise it is
\* the error of that earlier step, which names what that step missed.
C20_InvalidReference ==
    (AboutToRun /\ Referencing(CurAction) /\ ~PoolHas(CurPool, CurAction.reference_id)) =>
        \A ok \in BOOLEAN :
            MissingReferenceFails(CurAction, CurPool, Prepare(CurAction, CurPool),
                                  Dispatch(CurAction, CurPool, ok, created))

\* An update-ticket action resolved its reuse_data on the matched issue and
\* failed on its reference_id, which nothing had bound.
C20_Witness ==
    /\ pc = "done"
    /\ result.status = "raised"
    /\ NamesReference(result.err, TicketId)
    /\ template.actions[log[Len(log)].act].type = "update-ticket"
    /\ PoolHas(CurPool, CompositeKey(IssueId, "key"))
    /\ ~PoolHas(CurPool, TicketId)
    /\ ~PoolHas(CurPool, UpdatedId)
    /\ \A i \in LogIdx : log[i].act = log[Len(log)].act => ~IsCall(i)

\* C20 (as stated): an update-ticket or transition action whose reference_id
\* is no key of the pool fails with an error that names that reference_id,
\* without an update or transition_issue call and without binding an output.
C20_ErrorNamesReference ==
    (AboutToRun /\ Referencing(CurAction) /\ ~PoolHas(CurPool, CurAction.reference_id)) =>
        \A ok \in BOOLEAN :
            /\ FailedBeforeCall(CurPool, Dispatch(CurAction, CurPool, ok, created))
            /\ Mentions(Dispatch(CurAction, CurPool, ok, created).err.msg,
                        CurAction.reference_id)

\* ------------------------------------------- claims on the template object
\* The run has a JiraTemplate: the load is over and did not fail.
HasJiraTemplate == pc \notin {"idle", "load"} /\ ~RaisedAtLoad
IsSubst(i) == log[i].e = "subst"
PayloadHandles(fields) == UNION {HandlesOf(fields[f].v) : f \in 1..Len(fields)}

\* C21: executing actions never mutates the template.  Whatever number of
\* actions and passes have run, every action object of the template has the
\* payload and the reference declarations it was given at load time, and in a
\* triggered run the payload a pass substituted holds no text of an issue of
\* another pass: each pass substitutes into the original placeholders.
C21_TemplateNotMutated ==
    HasJiraTemplate =>
        /\ jira_actions = JiraActions(template)
        /\ (entry = "execute_template" /\ template.trigger.present) =>
             \A i \in LogIdx :
                 IsSubst(i) => PayloadHandles(log[i].payload)
                                   \subseteq HandlesOfPass(log[i].pass)

\* The second pass substituted into the first action's payload, as the first
\* pass had, and the two passes made different payloads of it.
C21_Witness ==
    /\ InTriggeredPass
    /\ ticket_i = 2
    /\ jira_actions = JiraActions(template)
    /\ \E i \in LogIdx : \E j \in LogIdx :
         /\ IsSubst(i) /\ log[i].pass = 1 /\ log[i].act = 1 /\ log[i].ok
         /\ IsSubst(j) /\ log[j].pass = 2 /\ log[j].act = 1 /\ log[j].ok
         /\ log[i].payload # jira_actions[1].fields
         /\ log[j].payload # log[i].payload

\* C22: list_issues is read-only.  The only call it makes is the search
\* call: no step of an action handler is in its run.  When it returns, its
\* result is "No issues found." for an empty search result and otherwise a
\* table with one (key, permalink) row per matched issue, in search-result
\* order.
C22_ListIssuesReadOnly ==
    entry = "list_issues" =>
        /\ \A i \in LogIdx : ~IsHandlerEvent(i)
        /\ \A i \in LogIdx : IsCall(i) => log[i].api = "search_issues"
        /\ Cardinality({i \in LogIdx : IsCall(i)}) <= 1
        /\ (pc = "done" /\ result.status = "returned") =>
             /\ SearchReturned
             /\ IF trigger_result = << >>
                THEN result.out.msg = Text("No issues found.") /\ result.out.rows = << >>
                ELSE /\ result.out.msg = << >>
                     /\ Len(result.out.rows) = Len(trigger_result)
                     /\ \A i \in 1..Len(trigger_result) :
                          result.out.rows[i] = <<IssueText("key", trigger_result[i]),
                                                 IssueText("permalink", trigger_result[i])>>

\* list_issues returned the table of two matched issues of a template that
\* has actions.
C22_Witness ==
    /\ entry = "list_issues"
    /\ pc = "done"
    /\ result.status = "returned"
    /\ Len(trigger_result) = 2
    /\ Len(result.out.rows) = 2
    /\ Len(jira_actions) > 0

\* ------------------------------------------------ claims on the return code
\* The passes of the run: one per matched issue, or one when untriggered.
PassesOf == IF template.trigger.present THEN 1..Len(trigger_result) ELSE {1}
IsRaise(i) == log[i].e = "raise"
\* Action a of pass p ran: its handler (or the warning of an unknown kind)
\* left its first event.
Ran(p, a) ==
    \E i \in LogIdx : log[i].pass = p /\ log[i].act = a /\ log[i].e \in {"copy", "warn"}
EveryActionCompleted ==
    /\ \A i \in LogIdx : ~IsRaise(i)
    /\ \A p \in PassesOf : \A a \in 1..Len(template.actions) : Ran(p, a)
SearchCalls == {i \in LogIdx : IsCall(i) /\ log[i].api = "search_issues"}

\* C23: execute_template returns 0 whenever every action of every pass
\* completed without error: after an untriggered run (one pass, no search)
\* and after a triggered run with at least one match (one pass per match, the
\* search having been called once, with the trigger's query).  A run that
\* returned made exactly those passes.
C23_ReturnsZero ==
    (pc = "done" /\ entry = "execute_template" /\ HasJiraTemplate
        /\ (template.trigger.present => SearchReturned /\ trigger_result # << >>))
        => /\ EveryActionCompleted => result.status = "returned" /\ result.code = 0
           /\ result.status = "returned" =>
                /\ EveryActionCompleted
                /\ \A i \in LogIdx :
                     log[i].pass # 0 => log[i].pass \in PassesOf
                /\ Cardinality(SearchCalls) = IF template.trigger.present THEN 1 ELSE 0
                /\ \A i \in SearchCalls :
                     log[i].payload = <<[f |-> "jql",
                                         v |-> StrV(Text(template.trigger.jql))]>>

\* A triggered run of two actions returned after two passes.
C23_Witness ==
    /\ pc = "done"
    /\ entry = "execute_template"
    /\ template.trigger.present
    /\ Len(trigger_result) = 2
    /\ Len(template.actions) = 2
    /\ result.status = "returned"
    /\ result.code = 0
    /\ Ran(2, 2)

\* ------------------------------------- claims on what substitution skips
\* The pool entries substitution passes over: the values that are neither a
\* string nor a list (issues, and the objects of their fields).
BoundToHandle(pool, key) ==
    PoolHas(pool, key) /\ PoolGet(pool, key).t \notin {"str", "reclist"}
HandleTokens(text, pool) == SelectSeq(text, LAMBDA a : a.ref /\ BoundToHandle(pool, a.k))
IsHandleValue(v) == v.t \in {"issue", "obj"}

\* The tokens of handle-bound keys in v0 are where they were in v1.
HandleTokensKept(v0, v1, pool) ==
    CASE v0.t = "str" /\ v1.t = "str" ->
           IsSubseq(HandleTokens(v0.s, pool), HandleTokens(v1.s, pool))
      [] v0.t = "map" /\ v1.t = "map" ->
           \A k \in 1..Len(v0.m) :
               IsSubseq(HandleTokens(v0.m[k].sv, pool), HandleTokens(v1.m[k].sv, pool))
      [] OTHER -> TRUE

\* C24: substitution never writes an issue handle into a payload and never
\* changes a numeric field.  Whether it succeeds or fails, afterwards the
\* payload has the field names it had, in their order; every field that was
\* a number is the number it was; no field is an issue handle; and the token
\* of a pool key bound to an issue handle is still in the string that held it.
C24_HandlesAndNumbersSkipped ==
    \A n \in CallIdx :
        IsApply(calls[n]) =>
            /\ Len(calls[n].fields1) = Len(calls[n].fields0)
            /\ \A i \in 1..Len(calls[n].fields0) :
                 /\ calls[n].fields1[i].f = calls[n].fields0[i].f
                 /\ calls[n].fields0[i].v.t = "num"
                        => calls[n].fields1[i].v = calls[n].fields0[i].v
                 /\ ~IsHandleValue(calls[n].fields1[i].v)
                 /\ HandleTokensKept(calls[n].fields0[i].v, calls[n].fields1[i].v,
                                     calls[n].pool0)

\* Substitution ran on a payload with a number and a string naming both an
\* issue handle and a string of the pool: it replaced the second token only.
C24_Witness ==
    \E n \in CallIdx :
        /\ IsApply(calls[n]) /\ Succeeded(calls[n])
        /\ PayloadHas(calls[n].fields0, "story_points")
        /\ PayloadHas(calls[n].fields0, "summary")
        /\ PayloadGet(calls[n].fields1, "story_points") = NumV
        /\ HasToken(PayloadGet(calls[n].fields0, "summary").s, IssueId)
        /\ HasToken(PayloadGet(calls[n].fields0, "summary").s, <<"issue", "key">>)
        /\ BoundToHandle(calls[n].pool0, IssueId)
        /\ BoundToString(calls[n].pool0, <<"issue", "key">>)
        /\ HasToken(PayloadGet(calls[n].fields1, "summary").s, IssueId)
        /\ ~HasToken(PayloadGet(calls[n].fields1, "summary").s, <<"issue", "key">>)

\* ------------------------------------------ claims on the "project" field
\* The sub-field of a "project" mapping that substitution works on: key
\* when there is one, else name when there is one, else none.
ProjectTarget(m) ==
    IF "key" \in MapKeys(m) THEN {"key"}
    ELSE IF "name" \in MapKeys(m) THEN {"name"} ELSE {}
\* No string of the pool holds the token of `ref`.
NotRequoted(pool, ref) ==
    \A k \in 1..Len(pool) : pool[k].v.t = "str" => ~HasToken(pool[k].v.s, ref)
TokenFree(text) == \A k \in 1..Len(text) : ~text[k].ref
\* s1 is s0 with the tokens of the string-bound keys replaced: what is no
\* such token stays in its order, no such token stays (unless a string of the
\* pool quotes it), and the string bound to a replaced key is there.
ReplacedIn(s0, s1, pool) ==
    /\ IsSubseq(SelectSeq(s0, LAMBDA a : ~(a.ref /\ BoundToString(pool, a.k))), s1)
    /\ \A ref \in PoolKeys(pool) :
         (BoundToString(pool, ref) /\ HasToken(s0, ref)) =>
             /\ NotRequoted(pool, ref) => ~HasToken(s1, ref)
             /\ TokenFree(PoolGet(pool, ref).s) => IsSubseq(PoolGet(pool, ref).s, s1)

\* C25: in the field "project" holding a nested object, substitution of the
\* string-bound pool keys works on the key sub-field when there is one, and
\* then leaves name as it is; else on the name sub-field when there is one;
\* every other part of the field is as it was.
C25_ProjectKeyThenName ==
    \A n \in CallIdx :
        (IsApply(calls[n]) /\ Succeeded(calls[n])) =>
            \A i \in 1..Len(calls[n].fields0) :
                (calls[n].fields0[i].f = "project" /\ calls[n].fields0[i].v.t = "map") =>
                    /\ calls[n].fields1[i].v.t = "map"
                    /\ Len(calls[n].fields1[i].v.m) = Len(calls[n].fields0[i].v.m)
                    /\ \A k \in 1..Len(calls[n].fields0[i].v.m) :
                         /\ calls[n].fields1[i].v.m[k].sk = calls[n].fields0[i].v.m[k].sk
                         /\ IF calls[n].fields0[i].v.m[k].sk
                                   \in ProjectTarget(calls[n].fields0[i].v.m)
                            THEN ReplacedIn(calls[n].fields0[i].v.m[k].sv,
                                            calls[n].fields1[i].v.m[k].sv,
                                            calls[n].pool0)
                            ELSE calls[n].fields1[i].v.m[k].sv
                                     = calls[n].fields0[i].v.m[k].sv

\* Substitution ran on a project with the token in key, name and id, with
\* the token's key bound to a string: key has the string, name has the token.
C25_Witness ==
    \E n \in CallIdx :
        /\ IsApply(calls[n]) /\ Succeeded(calls[n])
        /\ BoundToString(calls[n].pool0, <<"issue", "project">>)
        /\ PayloadHas(calls[n].fields0, "project")
        /\ MapKeys(PayloadGet(calls[n].fields0, "project").m) = {"key", "name", "id"}
        /\ HasToken(MapGet(PayloadGet(calls[n].fields0, "project").m, "key"),
                    <<"issue", "project">>)
        /\ MapGet(PayloadGet(calls[n].fields1, "project").m, "key")
               = ProjectKey(SearchableIssue(1))
        /\ HasToken(MapGet(PayloadGet(calls[n].fields1, "project").m, "name"),
                    <<"issue", "project">>)

\* --------------------------------- claims on the resolver's view of the pool
\* The first declaration of the list whose reference_id the pool had not
\* before the call, when the declarations before it resolve.
FirstUndeclared(c, k) ==
    /\ ~PoolHas(c.pool0, c.decls[k].reference_id)
    /\ \A j \in 1..(k - 1) : PoolHas(c.pool0, c.decls[j].reference_id)
    /\ update_reference_pool(SubSeq(c.decls, 1, k - 1), c.pool0).err = NoError

\* C26: within one call of update_reference_pool the reference_id check of a
\* declaration passes only for the keys the pool had before the call: a
\* declaration whose reference_id was not among them fails the check (with
\* "used before it was declared"), also when a declaration before it in the
\* same list has written a composite key equal to that reference_id.
C26_DeclaredBeforeCall ==
    \A n \in CallIdx :
        IsResolve(calls[n]) =>
            \A k \in 1..Len(calls[n].decls) :
                FirstUndeclared(calls[n], k) =>
                    calls[n].err = Raise("Exception",
                                         UsedBeforeDeclared(calls[n].decls[k].reference_id))

\* ------------------------------------- claims on the construction of actions
NotAList(reuse_data) == reuse_data.py \notin {"list", "none"}
SaysMustBeList(err, py) ==
    /\ err.type = "Exception"
    /\ Mentions(err.msg, <<"' type, must be a list.">>)
    /\ Mentions(err.msg, <<py>>)

\* C27 (as amended): constructing an action of any of the four kinds with a
\* reuse_data that is not a list and not empty fails with an error that says
\* it must be a list and names its type.  An empty reuse_data of another
\* type (an empty mapping, an empty string) is taken for an absent one: the
\* action is constructed, with no reference declarations.
C27_ReuseDataMustBeList ==
    \A n \in CallIdx :
        NotAList(calls[n].raw.reuse_data) =>
            IF calls[n].raw.reuse_data.items # << >>
            THEN SaysMustBeList(calls[n].err, calls[n].raw.reuse_data.py)
            ELSE calls[n].err = NoError /\ calls[n].reference_data = << >>

\* A transition with a mapping as reuse_data was refused, and a transition
\* with an empty mapping was constructed.
C27_Witness ==
    /\ Len(calls) = 2
    /\ calls[1].raw.type = "transition"
    /\ calls[1].raw.reuse_data = ReuseDict(Decl(IssueId, <<"key">>))
    /\ calls[1].err # NoError
    /\ calls[2].raw.type = "transition"
    /\ calls[2].raw.reuse_data = EmptyDict
    /\ calls[2].err = NoError

\* C27 (as stated): every reuse_data that is not a list, the empty ones
\* included, makes the construction fail with that error.
C27_EveryNonListFails ==
    \A n \in CallIdx :
        NotAList(calls[n].raw.reuse_data) =>
            SaysMustBeList(calls[n].err, calls[n].raw.reuse_data.py)

\* ------------------------------------- claims on a failing remote call
\* The handler failed and bound nothing: the object_id of the action, when
\* the pool has it afterwards, is bound as it was before or is a composite
\* key of the action's own declarations.
NothingBound(a, before, h) ==
    /\ ~HasEvent(h.events, "bind")
    /\ (Truthy(a.object_id) /\ PoolHas(h.pool, a.object_id)) =>
         \/ /\ PoolHas(before, a.object_id)
            /\ PoolGet(h.pool, a.object_id) = PoolGet(before, a.object_id)
         \/ a.object_id \in DottedKeys(a.reference_data)

\* C28: an action's output identifier is bound only after its remote call
\* returned successfully.  A handler whose create_issue, update or
\* transition_issue call fails binds nothing, and in the log of a run every
\* binding comes right after a successful remote call of the same action.
C28_BoundAfterSuccess ==
    /\ (AboutToRun /\ CurAction.type \in ActionTypes) =>
         NothingBound(CurAction, CurPool, Dispatch(CurAction, CurPool, FALSE, created))
    /\ \A i \in LogIdx :
         log[i].e = "bind" =>
             /\ i > 1
             /\ IsActionCall(i - 1) /\ log[i - 1].ok
             /\ log[i - 1].pass = log[i].pass /\ log[i - 1].act = log[i].act

\* The create_issue call of an action that declares an object_id failed, and
\* the pool does not have the object_id.
C28_Witness ==
    /\ pc = "done"
    /\ result.status = "raised"
    /\ result.err = JIRAError("create_issue")
    /\ act_i > 1
    /\ Truthy(jira_actions[act_i - 1].object_id)
    /\ ~PoolHas(CurPool, jira_actions[act_i - 1].object_id)
    /\ \E i \in LogIdx : IsCall(i) /\ log[i].api = "create_issue" /\ ~log[i].ok

\* ------------------------------------------- claims on rebinding in a pass
\* The bindings of the pass under way: the trigger's, then those the action
\* outputs made, as the log has them.
BoundInPass ==
    {[k |-> template.trigger.object_id, v |-> IssueVal(trigger_result[ticket_i])]}
        \cup {[k |-> log[i].key, v |-> log[i].val] :
                  i \in {j \in LogIdx : log[j].e = "bind" /\ log[j].pass = ticket_i}}

\* C29: in a triggered pass of a template that passed the uniqueness
\* validation an identifier is bound at most once: the trigger's object_id
\* stays bound to the matched issue until the end of the pass, and neither an
\* action's output binding nor a write of the resolver overwrites a key that
\* the trigger or an earlier action output bound.
C29_BoundOnce ==
    InTriggeredPass =>
        \A b \in BoundInPass :
            PoolHas(reference_pool, b.k) /\ PoolGet(reference_pool, b.k) = b.v

\* ------------------------------------ claims on a failure of the resolver
\* The declarations of c up to field j of declaration k: the declarations
\* before k, and declaration k cut after its first j fields (its reference_id
\* alone when j = 0).
UpTo(c, k, j) ==
    SubSeq(c.decls, 1, k - 1)
        \o <<Decl(c.decls[k].reference_id, SubSeq(c.decls[k].fields, 1, j))>>
\* What the resolver went through before it came to that point.
Before(c, k, j) == IF j = 0 THEN SubSeq(c.decls, 1, k - 1) ELSE UpTo(c, k, j - 1)
\* The call fails at the reference_id (j = 0) or at field j of declaration k.
FailsAt(c, k, j) ==
    /\ update_reference_pool(Before(c, k, j), c.pool0).err = NoError
    /\ update_reference_pool(UpTo(c, k, j), c.pool0).err # NoError
FailurePoints(c) ==
    UNION {{<<k, j>> : j \in {i \in 0..Len(c.decls[k].fields) : FailsAt(c, k, i)}} :
               k \in 1..Len(c.decls)}
WrittenBefore(c, k, j) ==
    \A i \in 1..Len(Before(c, k, j)) :
        \A f \in 1..Len(Before(c, k, j)[i].fields) :
            /\ PoolHas(c.pool1, Before(c, k, j)[i].reference_id
                                    \o <<Before(c, k, j)[i].fields[f]>>)
            /\ FollowsTable(c, Before(c, k, j)[i].reference_id,
                            Before(c, k, j)[i].fields[f])

\* C30: the resolver does not roll back.  No call of update_reference_pool
\* removes a key or changes an identifier bound before it; and when the call
\* raises at declaration k, at its reference_id or at one of its fields, the
\* composite keys of the declarations before k and of the fields of k before
\* the failing one are in the pool, with the values of the extraction table.
C30_NoRollback ==
    \A n \in CallIdx :
        IsResolve(calls[n]) =>
            /\ \A key \in PoolKeys(calls[n].pool0) :
                 /\ PoolHas(calls[n].pool1, key)
                 /\ key \notin DottedKeys(calls[n].decls)
                        => PoolGet(calls[n].pool1, key) = PoolGet(calls[n].pool0, key)
            /\ ~Succeeded(calls[n]) =>
                 /\ FailurePoints(calls[n]) # {}
                 /\ \A p \in FailurePoints(calls[n]) : WrittenBefore(calls[n], p[1], p[2])

\* The resolver failed on the priority of an issue that has none, after it
\* wrote the key of that issue, which the pool has since.
C30_Witness ==
    \E n \in CallIdx :
        /\ IsResolve(calls[n]) /\ ~Succeeded(calls[n])
        /\ calls[n].decls = <<Decl(TicketId, <<"key", "priority">>)>>
        /\ PoolHas(calls[n].pool0, TicketId)
        /\ ~PoolHas(calls[n].pool0, <<"ticket", "key">>)
        /\ PoolHas(calls[n].pool1, <<"ticket", "key">>)
        /\ calls[n].err.type = "AttributeError"


====
